---------------------------- MODULE Spec2Model ----------------------------
(***************************************************************************)
(* A model of lutron-caseta-mcp: the pairing flow and credential store of   *)
(* pairing.py, the Connection Manager (LutronCasetaManager) and the Server  *)
(* State with its tool handlers of server.py.                               *)
(*                                                                          *)
(* Every coroutine runs as a task.  A task's step is the code between two   *)
(* suspension points (an await of the external pairing primitive or of the  *)
(* external bridge client).  The persistence steps of pair_bridge contain   *)
(* no await: they are separate steps because the filesystem is visible      *)
(* between them, but no other task runs while one is inside them (Sync).    *)
(*                                                                          *)
(* Three specifications share the step actions:                             *)
(*   SpecPairing  pair_bridge called directly, as pairing.main does;        *)
(*   SpecManager  the methods of LutronCasetaManager called directly;       *)
(*   Spec         the server: app_lifespan and the six tool handlers, one   *)
(*                request at a time.                                        *)
(***************************************************************************)
EXTENDS Integers, Sequences, FiniteSets, TLC

\* ---------------------------------------------------------------- bounds
MaxTasks == 2       \* task slots of the event loop
MaxRuns == 2        \* pairing runs (each yields a fresh credential bundle)
MaxManagers == 2    \* LutronCasetaManager objects ever constructed
MaxSessions == 2    \* Smartbridge sessions ever created by create_tls

Tasks == 1..MaxTasks

\* ------------------------------------------------------------- constants
\* pairing.py:94  key_path.chmod(0o600)
OWNER_ONLY == 384

\* pairing.py:79-81: the three fixed file names
CA_FILE == "caseta-bridge.crt"
CERT_FILE == "caseta.crt"
KEY_FILE == "caseta.key"
FileNames == {CA_FILE, CERT_FILE, KEY_FILE}

\* Addresses a caller may pass.
Hosts == {"10.0.0.1", "10.0.0.2"}

\* The umask of the process: 0o022 (the usual default) or 0o077.
Umasks == {18, 63}

NoExc == "none"

VARIABLES
    cwd,            \* the process's working directory (fixed for a run)
    dispatch,       \* how the RPC layer starts requests: "one_at_a_time", or
                    \* "overlapping" (a request may start while others await)
    umask,          \* process umask (fixed for a run of the program)
    environ,        \* os.environ: LUTRON_BRIDGE_IP, LUTRON_CERT_DIR
    fs,             \* the certificate directory: [dir, files]
    runs,           \* pairing runs started so far (bundle ids handed out)
    mgr,            \* sequence of LutronCasetaManager objects
    sessions,       \* sequence of Smartbridge sessions
    server_state,   \* the module global server_state
    phase,          \* app_lifespan: "off", "starting", "serving", "stopping", "stopped",
                    \* "aborting", "aborted" (the serving phase raised), "failed"
    task,           \* Tasks -> the coroutine a task runs and where it stands
    last            \* what the most recently finished call returned (cleared
                    \* when the next call begins)

vars == <<cwd, dispatch, umask, environ, fs, runs, mgr, sessions, server_state, phase, task, last>>

\* ------------------------------------------------------------ bit helpers
RECURSIVE BitAnd(_, _)
BitAnd(a, b) ==
    IF a = 0 \/ b = 0 THEN 0
    ELSE (IF a % 2 = 1 /\ b % 2 = 1 THEN 1 ELSE 0) + 2 * BitAnd(a \div 2, b \div 2)

\* mode & ~mask, for 9-bit permission words
BitClear(mode, mask) == BitAnd(mode, 511 - mask)

\* No permission bit for group or others (mode & 0o077 = 0).
OwnerOnly(mode) == BitAnd(mode, 63) = 0

\* ------------------------------------------------------------------ paths
\* A path is the sequence of its components; an absolute one starts with
\* "/", one under the user's home may start with "~".
HOME == <<"/", "home", "user">>
TMP == <<"/", "tmp">>
\* The working directory the server is started in, unless said otherwise.
CWD == <<"/", "srv", "app">>

\* os.path.join(dir, name)
path_join(dir, name) == Append(dir, name)

\* Path.expanduser()
expanduser(p) == IF p # <<>> /\ Head(p) = "~" THEN HOME \o Tail(p) ELSE p

\* Path.resolve(): absolute, "." and ".." folded (no symbolic links here).
RECURSIVE fold_dots(_, _)
fold_dots(done, rest) ==
    IF rest = <<>> THEN done
    ELSE IF Head(rest) = "." THEN fold_dots(done, Tail(rest))
    ELSE IF Head(rest) = ".."
         THEN fold_dots(IF Len(done) > 1 THEN SubSeq(done, 1, Len(done) - 1) ELSE done,
                        Tail(rest))
    ELSE fold_dots(Append(done, Head(rest)), Tail(rest))

resolve(p) ==
    LET abs == IF p # <<>> /\ Head(p) = "/" THEN p ELSE cwd \o p
    IN  fold_dots(<<"/">>, Tail(abs))

\* PurePath.is_relative_to(other)
is_relative_to(p, other) ==
    Len(other) <= Len(p) /\ SubSeq(p, 1, Len(other)) = other

\* pairing.py:24: os.path.expanduser("~/.config/lutron-caseta-mcp")
DEFAULT_CERT_DIR == expanduser(<<"~", ".config", "lutron-caseta-mcp">>)

\* ------------------------------------------------------------- validation
\* A validator's outcome: the normalized value, or a ValidationError.
Valid(v) == [ok |-> TRUE, value |-> v]
Invalid(msg) == [ok |-> FALSE, error |-> msg]

\* A string is the sequence of its tokens; " " is white space.
RECURSIVE lstrip(_)
lstrip(str) == IF str # <<>> /\ Head(str) = " " THEN lstrip(Tail(str)) ELSE str
RECURSIVE rstrip(_)
rstrip(str) ==
    IF str # <<>> /\ str[Len(str)] = " " THEN rstrip(SubSeq(str, 1, Len(str) - 1)) ELSE str
strip(str) == lstrip(rstrip(str))

\* str.lower() on a token
lower_token(c) ==
    CASE c \in {"LIGHT", "Light"} -> "light"
      [] c \in {"FAN", "Fan"} -> "fan"
      [] c \in {"SWITCH", "Switch"} -> "switch"
      [] c \in {"COVER", "Cover"} -> "cover"
      [] c \in {"SENSOR", "Sensor"} -> "sensor"
      [] OTHER -> c
lower(str) == [i \in 1..Len(str) |-> lower_token(str[i])]

\* The literals ipaddress.ip_address accepts, among the tokens used here.
IpLiterals == {"10.0.0.1", "10.0.0.2", "::1"}

\* A check that only rejects the empty string.
validate_host_ip_nonempty(host) ==
    IF strip(host) = <<>> THEN Invalid("Host IP cannot be empty")
    ELSE Valid(strip(host)[1])

\* validation.py:16-39
validate_host_ip(host) ==
    IF strip(host) = <<>> THEN Invalid("Host IP cannot be empty")
    ELSE LET h == strip(host)
         IN  IF Len(h) = 1 /\ h[1] \in IpLiterals THEN Valid(h[1])
             ELSE Invalid(<<"Invalid IP address format: ", h>>)

\* validation.py:83
valid_domains == {"light", "switch", "cover", "sensor", "fan"}

\* The check without the lower-casing.
validate_domain_case_sensitive(domain) ==
    IF strip(domain) = <<>> THEN Invalid("Domain cannot be empty")
    ELSE LET dm == strip(domain)
         IN  IF Len(dm) = 1 /\ dm[1] \in valid_domains THEN Valid(dm[1])
             ELSE Invalid(<<"Invalid domain ", dm>>)

\* validation.py:64-90
validate_domain(domain) ==
    IF strip(domain) = <<>> THEN Invalid("Domain cannot be empty")
    ELSE LET dm == lower(strip(domain))
         IN  IF Len(dm) = 1 /\ dm[1] \in valid_domains THEN Valid(dm[1])
             ELSE Invalid(<<"Invalid domain ", dm>>)

\* A Python value with its type, as a tool receives it.  A bool is an int
\* to isinstance (True is 1, False is 0).
PyInt(v) == [type |-> "int", v |-> v]
PyStr(v) == [type |-> "str", str |-> v]
PyBool(v) == [type |-> "bool", v |-> v]
PyOther(type, repr) == [type |-> type, str |-> repr]

\* The range check with 0 shut out.
validate_device_level_above_zero(level) ==
    IF level.type \notin {"int", "bool"}
    THEN Invalid(<<"Device level must be an integer, got ", level.type>>)
    ELSE IF ~(0 < level.v /\ level.v <= 100)
    THEN Invalid(<<"Device level must be between 0 and 100, got ", level.v>>)
    ELSE Valid(level.v)

\* validation.py:42-61
validate_device_level(level) ==
    IF level.type \notin {"int", "bool"}
    THEN Invalid(<<"Device level must be an integer, got ", level.type>>)
    ELSE IF ~(0 <= level.v /\ level.v <= 100)
    THEN Invalid(<<"Device level must be between 0 and 100, got ", level.v>>)
    ELSE Valid(level.v)

\* A path is the sequence of its components ("/" first when absolute).
\* validation.py:106: not cert_dir or not cert_dir.strip().  A string with a
\* separator in it is not white space, so only a lone component can be.
is_blank(cert_dir) == cert_dir = <<>> \/ (Len(cert_dir) = 1 /\ strip(cert_dir) = <<>>)

\* The safe-location test made on the path as written, not resolved.
validate_cert_directory_unresolved(cert_dir) ==
    IF is_blank(cert_dir) THEN Invalid("Certificate directory cannot be empty")
    ELSE LET cert_dir_path == expanduser(cert_dir)
         IN  IF is_relative_to(cert_dir_path, resolve(HOME))
                \/ is_relative_to(cert_dir_path, resolve(TMP))
             THEN Valid(cert_dir_path)
             ELSE Invalid(<<"Invalid certificate directory path: ", cert_dir>>)

\* validation.py:93-125
validate_cert_directory(cert_dir) ==
    IF is_blank(cert_dir) THEN Invalid("Certificate directory cannot be empty")
    ELSE LET cert_dir_path == resolve(expanduser(cert_dir))
         IN  IF is_relative_to(cert_dir_path, resolve(HOME))
                \/ is_relative_to(cert_dir_path, resolve(TMP))
             THEN Valid(cert_dir_path)
             ELSE Invalid(<<"Invalid certificate directory path: ", cert_dir>>)

\* os.getenv(name, default): an unset variable is "unset".
Unset == "unset"
getenv(env, name, default) == IF env[name] = Unset THEN default ELSE env[name]

\* The override taken as it is, with only the home shorthand expanded.
get_cert_dir_unvalidated(env) ==
    expanduser(getenv(env, "LUTRON_CERT_DIR", DEFAULT_CERT_DIR))

\* pairing.py:27-36
get_cert_dir(env) ==
    LET v == validate_cert_directory(getenv(env, "LUTRON_CERT_DIR", DEFAULT_CERT_DIR))
    IN  IF v.ok THEN v.value ELSE DEFAULT_CERT_DIR

\* -------------------------------------------------------------- the files
\* A blob of a credential bundle: bundle b's "ca", "cert", "key" or "version".
Blob(b, part) == <<b, part>>

\* What the external pairing primitive yields for run b (pairing.py:72).
Bundle(b) ==
    [ca |-> Blob(b, "ca"), cert |-> Blob(b, "cert"), key |-> Blob(b, "key"),
     version |-> Blob(b, "version")]

\* A file: what it holds, whether all of it (a failed write leaves a prefix),
\* and its permission bits.
File(blob, whole, mode) == [blob |-> blob, whole |-> whole, mode |-> mode]

Exists(f, name) == name \in DOMAIN f.files

\* A write that leaves a file that already exists as it is.
open_w_write_keep_existing(f, name, blob, outcome, um) ==
    IF outcome = "open_fails" \/ ~f.dir \/ Exists(f, name) THEN f
    ELSE [f EXCEPT !.files = (name :> File(blob, outcome = "ok", BitClear(438, um))) @@ @]

\* open(path, "w") then write(blob), pairing.py:84-93.  A new file gets mode
\* 0o666 & ~umask; an existing one is truncated and keeps its mode.  outcome
\* "open_fails": nothing changes; "write_fails": the file is left with a
\* prefix of the blob; "ok": the file holds the blob.
open_w_write(f, name, blob, outcome, um) ==
    IF outcome = "open_fails" \/ ~f.dir THEN f
    ELSE LET mode == IF Exists(f, name) THEN f.files[name].mode
                     ELSE BitClear(438, um)
         IN  [f EXCEPT !.files = (name :> File(blob, outcome = "ok", mode)) @@ @]

\* Path.mkdir(parents=True, exist_ok=True), pairing.py:76
mkdir(f, outcome) ==
    IF f.dir \/ outcome # "ok" THEN f ELSE [f EXCEPT !.dir = TRUE]

\* A chmod that is never applied.
chmod_skipped(f, name, mode, outcome) == f

\* Path.chmod(mode), pairing.py:94
chmod(f, name, mode, outcome) ==
    IF outcome # "ok" \/ ~Exists(f, name) THEN f
    ELSE [f EXCEPT !.files[name].mode = mode]

EmptyFiles == [n \in {} |-> 0]

\* The cert and key entries looking at each other's file.
check_certificates_swapped(f) ==
    [ca |-> Exists(f, CA_FILE), cert |-> Exists(f, KEY_FILE), key |-> Exists(f, CERT_FILE)]

\* pairing.py:113-129
check_certificates(f) ==
    [ca |-> Exists(f, CA_FILE), cert |-> Exists(f, CERT_FILE), key |-> Exists(f, KEY_FILE)]

\* One file present taken for all three.
certificates_exist_any(f) ==
    LET certs == check_certificates(f) IN certs.ca \/ certs.cert \/ certs.key

\* pairing.py:132-135
certificates_exist(f) ==
    LET certs == check_certificates(f) IN certs.ca /\ certs.cert /\ certs.key

\* ------------------------------------------------------------------ tasks
\* A task slot: the coroutine it runs (op), where it stands (pc), the call's
\* arguments, its locals, and what it has done so far.
IdleTask ==
    [op |-> "idle", pc |-> "idle", host |-> "", cb |-> "", dev |-> "", level |-> 0,
     domain |-> "", dir |-> <<>>, m |-> 0, s |-> 0, bundle |-> 0, steps |-> {}, failed_at |-> "",
     exc |-> NoExc, calls |-> <<>>, mcalls |-> <<>>, input |-> <<>>, paired |-> <<>>,
     yield |-> "None", pre |-> <<>>, res |-> <<>>]

NoLast == [op |-> "none"]

Idle(t) == task[t].pc = "idle"
AllIdle == \A t \in Tasks : Idle(t)

\* A new coroutine takes the lowest free task slot.
FreeSlot(t) == Idle(t) /\ \A u \in 1..(t - 1) : ~Idle(u)

\* Program points with no await before the next step: the task keeps the
\* event loop, so no other task may take a step.
SyncPcs ==
    {"mkdir", "write_ca", "write_cert", "write_key", "chmod", "result", "pb_return", "ret"}
Sync(t) == task[t].pc \in SyncPcs
MayRun(t) == \A u \in Tasks \ {t} : ~Sync(u)

\* ---------------------------------------------------- pairing.pair_bridge
\* pairing.py:39-45
PairingResult(success, message, data) ==
    [success |-> success, message |-> message, data |-> data]

\* What a call hands to its caller: a value, or an exception raised past it.
Returned(value) == [raised |-> NoExc, value |-> value]
Raised(e) == [raised |-> e, value |-> "None"]

\* Errors the external pairing primitive raises by itself.
AsyncPairErrors == {"Pairing timeout", "Connection refused"}
CallbackError == "ready_callback failed"

\* The ready notification: None (the console prompt), one that returns, one
\* that raises (pairing.py:63-69).
Callbacks == {"None", "returns", "raises"}

\* A handler that catches OSError only.
pair_bridge_except_oserror(e) ==
    IF e \in AsyncPairErrors \cup {CallbackError} THEN Raised(e)
    ELSE Returned(PairingResult(FALSE, <<"Pairing failed: ", e>>, "None"))

\* pairing.py:109-110: except Exception as e: PairingResult(False, f"Pairing failed: {e}")
pair_bridge_except(e) ==
    Returned(PairingResult(FALSE, <<"Pairing failed: ", e>>, "None"))

\* pairing.py:96-107: the success result
pair_bridge_result(b, output_dir) ==
    Returned(PairingResult(TRUE,
        <<"Successfully paired with ", Bundle(b).version, ". Certificate files saved to: ", output_dir>>,
        [version |-> Bundle(b).version,
         ca_path |-> path_join(output_dir, CA_FILE),
         cert_path |-> path_join(output_dir, CERT_FILE),
         key_path |-> path_join(output_dir, KEY_FILE)]))

\* The key file written before the client certificate.
pair_bridge_next_key_first(pc) ==
    CASE pc = "start" -> "async_pair"
      [] pc = "async_pair" -> "mkdir"
      [] pc = "mkdir" -> "write_ca"
      [] pc = "write_ca" -> "write_key"
      [] pc = "write_key" -> "write_cert"
      [] pc = "write_cert" -> "chmod"
      [] pc = "chmod" -> "result"

\* The directory created before the primitive is awaited.
pair_bridge_next_mkdir_first(pc) ==
    CASE pc = "start" -> "mkdir"
      [] pc = "mkdir" -> "async_pair"
      [] pc = "async_pair" -> "write_ca"
      [] pc = "write_ca" -> "write_cert"
      [] pc = "write_cert" -> "write_key"
      [] pc = "write_key" -> "chmod"
      [] pc = "chmod" -> "result"

\* The order of the statements in the try block, pairing.py:72-107.
pair_bridge_next(pc) ==
    CASE pc = "start" -> "async_pair"
      [] pc = "async_pair" -> "mkdir"
      [] pc = "mkdir" -> "write_ca"
      [] pc = "write_ca" -> "write_cert"
      [] pc = "write_cert" -> "write_key"
      [] pc = "write_key" -> "chmod"
      [] pc = "chmod" -> "result"

\* A step of the try block went through / raised e.
StepOk(t, step) ==
    [task[t] EXCEPT !.pc = pair_bridge_next(step), !.steps = @ \cup {step}]

\* A failed pairing attempt made once more before the failure is reported.
StepRaised_retries(t, step, e) ==
    IF step = "async_pair" /\ task[t].calls = <<"async_pair">>
    THEN [task[t] EXCEPT !.calls = Append(@, "async_pair")]
    ELSE [task[t] EXCEPT !.pc = "pb_return", !.failed_at = step, !.exc = e,
                         !.res = pair_bridge_except(e)]

\* pairing.py:105-110: whatever a step raises ends the run in the except
\* clause.
StepRaised(t, step, e) ==
    [task[t] EXCEPT !.pc = "pb_return", !.failed_at = step, !.exc = e,
                    !.res = pair_bridge_except(e)]

\* Entering pair_bridge(host, output_dir, ready_callback): the code up to
\* the first await (pairing.py:48-72).
EnterPairBridge(t, op, host, output_dir, cb) ==
    /\ runs < MaxRuns
    /\ runs' = runs + 1
    /\ task' = [task EXCEPT ![t] = [IdleTask EXCEPT !.op = op, !.pc = pair_bridge_next("start"),
                                     !.host = host, !.dir = expanduser(output_dir), !.cb = cb,
                                     !.bundle = runs + 1,
                                     !.calls = <<"async_pair">>,
                                     !.pre = fs]]

\* await async_pair(host, _ready) returns or raises (pairing.py:72).
AsyncPairDone(t) ==
    /\ task[t].pc = "async_pair" /\ MayRun(t)
    /\ \/ \E e \in AsyncPairErrors :
            task' = [task EXCEPT ![t] = StepRaised(t, "async_pair", e)]
       \/ /\ task[t].cb = "raises"
          /\ task' = [task EXCEPT ![t] = StepRaised(t, "async_pair", CallbackError)]
       \/ /\ task[t].cb # "raises"
          /\ task' = [task EXCEPT ![t] = StepOk(t, "async_pair")]
    /\ UNCHANGED <<cwd, dispatch, umask, environ, fs, runs, mgr, sessions, server_state, phase, last>>

\* output_path.mkdir(parents=True, exist_ok=True)  (pairing.py:75-76)
Mkdir(t) ==
    /\ task[t].pc = "mkdir" /\ MayRun(t)
    /\ \/ /\ fs' = mkdir(fs, "ok")
          /\ task' = [task EXCEPT ![t] = StepOk(t, "mkdir")]
       \/ /\ ~fs.dir
          /\ fs' = mkdir(fs, "fails")
          /\ task' = [task EXCEPT ![t] = StepRaised(t, "mkdir", "mkdir: Permission denied")]
    /\ UNCHANGED <<cwd, dispatch, umask, environ, runs, mgr, sessions, server_state, phase, last>>

WriteErr(outcome) ==
    IF outcome = "open_fails" THEN "open: Permission denied"
    ELSE "write: No space left on device"

\* with open(path, "w") as f: f.write(data[part])
WriteStep(t, step, name, part) ==
    /\ task[t].pc = step /\ MayRun(t)
    /\ \E outcome \in {"ok", "open_fails", "write_fails"} :
          /\ outcome = "ok" => fs.dir
          /\ fs' = open_w_write(fs, name, Bundle(task[t].bundle)[part], outcome, umask)
          /\ task' = [task EXCEPT ![t] =
                        IF outcome = "ok" THEN StepOk(t, step)
                        ELSE StepRaised(t, step, WriteErr(outcome))]
    /\ UNCHANGED <<cwd, dispatch, umask, environ, runs, mgr, sessions, server_state, phase, last>>

\* The client certificate file written from data["ca"].
WriteCert_ca_blob(t) == WriteStep(t, "write_cert", CERT_FILE, "ca")

\* A key file that is already there left as it is.
WriteKey_keeps_existing(t) ==
    IF Exists(fs, KEY_FILE)
    THEN /\ task[t].pc = "write_key" /\ MayRun(t)
         /\ task' = [task EXCEPT ![t] = StepOk(t, "write_key")]
         /\ UNCHANGED <<cwd, dispatch, umask, environ, fs, runs, mgr, sessions, server_state, phase, last>>
    ELSE WriteStep(t, "write_key", KEY_FILE, "key")

\* pairing.py:84-85
WriteCa(t) == WriteStep(t, "write_ca", CA_FILE, "ca")
\* pairing.py:88-89
WriteCert(t) == WriteStep(t, "write_cert", CERT_FILE, "cert")
\* pairing.py:92-93
WriteKey(t) == WriteStep(t, "write_key", KEY_FILE, "key")

\* key_path.chmod(0o600)  (pairing.py:94)
Chmod(t) ==
    /\ task[t].pc = "chmod" /\ MayRun(t)
    /\ \E outcome \in {"ok", "fails"} :
          /\ outcome = "ok" => Exists(fs, KEY_FILE)
          /\ fs' = chmod(fs, KEY_FILE, OWNER_ONLY, outcome)
          /\ task' = [task EXCEPT ![t] =
                        IF outcome = "ok" THEN StepOk(t, "chmod")
                        ELSE StepRaised(t, "chmod", "chmod: Operation not permitted")]
    /\ UNCHANGED <<cwd, dispatch, umask, environ, runs, mgr, sessions, server_state, phase, last>>

\* pairing.py:96-107
BuildResult(t) ==
    /\ task[t].pc = "result" /\ MayRun(t)
    /\ task' = [task EXCEPT ![t] = [@ EXCEPT !.pc = "pb_return",
                    !.res = pair_bridge_result(task[t].bundle, task[t].dir)]]
    /\ UNCHANGED <<cwd, dispatch, umask, environ, fs, runs, mgr, sessions, server_state, phase, last>>

\* What a finished call leaves in `last`: the task's record with the outcome.
FinishedOf(tk, outcome) ==
    [op |-> tk.op, host |-> tk.host, cb |-> tk.cb, dev |-> tk.dev,
     level |-> tk.level, domain |-> tk.domain, dir |-> tk.dir,
     m |-> tk.m, s |-> tk.s, mcalls |-> tk.mcalls, input |-> tk.input,
     paired |-> tk.paired,
     bundle |-> tk.bundle, steps |-> tk.steps, failed_at |-> tk.failed_at,
     exc |-> tk.exc, calls |-> tk.calls, yield |-> tk.yield, pre |-> tk.pre,
     raised |-> outcome.raised, value |-> outcome.value]

Finished(t, outcome) == FinishedOf(task[t], outcome)

\* ------------------------------------- pair_bridge called directly
\* asyncio.run(pair_bridge(bridge_ip, output_dir)) with output_dir =
\* get_cert_dir()  (pairing.py:152, 164), and the direct calls of
\* tests/test_pairing.py.
CallPairBridge(t, host, cb) ==
    /\ AllIdle /\ FreeSlot(t)
    /\ EnterPairBridge(t, "pair_bridge", host, get_cert_dir(environ), cb)
    /\ last' = NoLast
    /\ UNCHANGED <<cwd, dispatch, umask, environ, fs, mgr, sessions, server_state, phase>>

PairBridgeReturn(t) ==
    /\ task[t].pc = "pb_return" /\ task[t].op = "pair_bridge"
    /\ last' = Finished(t, task[t].res)
    /\ task' = [task EXCEPT ![t] = IdleTask]
    /\ UNCHANGED <<cwd, dispatch, umask, environ, fs, runs, mgr, sessions, server_state, phase>>

NoFs == [dir |-> FALSE, files |-> EmptyFiles]
NoServerState ==
    [exists |-> FALSE, config |-> [exists |-> FALSE], caseta_manager |-> 0, connected |-> FALSE]

InitPairing ==
    /\ cwd = CWD
    /\ dispatch = "one_at_a_time"
    /\ umask \in Umasks
    /\ environ = [LUTRON_BRIDGE_IP |-> Unset, LUTRON_CERT_DIR |-> Unset]
    /\ fs \in {NoFs, [NoFs EXCEPT !.dir = TRUE]}
    /\ runs = 0
    /\ mgr = <<>>
    /\ sessions = <<>>
    /\ server_state = NoServerState
    /\ phase = "off"
    /\ task = [t \in Tasks |-> IdleTask]
    /\ last = NoLast

NextPairing ==
    \/ \E t \in Tasks, host \in Hosts, cb \in Callbacks : CallPairBridge(t, host, cb)
    \/ \E t \in Tasks : AsyncPairDone(t)
    \/ \E t \in Tasks : Mkdir(t)
    \/ \E t \in Tasks : WriteCa(t)
    \/ \E t \in Tasks : WriteCert(t)
    \/ \E t \in Tasks : WriteKey(t)
    \/ \E t \in Tasks : Chmod(t)
    \/ \E t \in Tasks : BuildResult(t)
    \/ \E t \in Tasks : PairBridgeReturn(t)

SpecPairing == InitPairing /\ [][NextPairing]_vars

\* ------------------------------------------------- LutronCasetaManager
\* mgr and sessions hold every object ever constructed: nothing in the code
\* closes a session but disconnect(), so an object the program no longer
\* references keeps the flag and the session it had.
\* server.py:116-122: a manager as __init__ leaves it (bridge 0 is None)
LutronCasetaManager(bridge_ip, key_path, cert_path, ca_path) ==
    [bridge_ip |-> bridge_ip, key_path |-> key_path, cert_path |-> cert_path,
     ca_path |-> ca_path, bridge |-> 0, connected |-> FALSE]

\* The Smartbridge that Smartbridge.create_tls returns: "created", then
\* "connected" once its connect() went through, "closed" after close().
Smartbridge(host) == [state |-> "created", host |-> host]

Devices == {"1"}
Levels == {-1, 0, 100, 101}
Domains == {"light", "fan"}
\* What the bridge client yields for a domain: None, or a list of records.
DeviceLists == {"None", <<>>, <<[device_id |-> "1"]>>}

NOT_CONNECTED == "RuntimeError: Not connected to Lutron Caseta bridge"
LEVEL_RANGE == "ValueError: Level must be between 0 and 100"

\* A guard that forgets the connected flag.
not_connected_bridge_only(mg) == mg.bridge = 0

\* server.py:145, 153, 165, 177: if not self.connected or not self.bridge
not_connected(mg) == ~mg.connected \/ mg.bridge = 0

\* A guard that forgets the connected flag.
disconnect_guard_bridge_only(mg) == mg.bridge # 0

\* server.py:139: if self.bridge and self.connected
disconnect_guard(mg) == mg.bridge # 0 /\ mg.connected

\* The flag set whatever the handshake did.
connect_finish_always(mg, ok) == [mg EXCEPT !.connected = TRUE]

\* server.py:131 (handshake went through) against 133-135 (it raised)
connect_finish(mg, ok) == IF ok THEN [mg EXCEPT !.connected = TRUE] ELSE mg

\* A manager still marked connected after its session was closed.
disconnect_finish_keeps_flag(mg) == mg

\* server.py:141
disconnect_finish(mg) == [mg EXCEPT !.connected = FALSE]

\* The bridge client's result handed back as it is.
devices_or_empty_as_is(devices) == devices

\* server.py:149: devices if devices is not None else []
devices_or_empty(devices) == IF devices = "None" THEN <<>> ELSE devices

\* The range check with its lower bound left out.
level_in_range_upper_only(level) == level <= 100

\* server.py:180
level_in_range(level) == 0 <= level /\ level <= 100

Snapshot == [mgr |-> mgr, sessions |-> sessions, server_state |-> server_state]

\* connect(), up to its await (server.py:126-130).  create_tls either
\* raises (the except returns False at once) or yields a session, stored in
\* self.bridge, whose connect() is then awaited.
EnterConnect(t, tk, mg, m) ==
    /\ Len(sessions) < MaxSessions
    /\ \/ /\ task' = [task EXCEPT ![t] = [tk EXCEPT !.m = m, !.pc = "ret",
                          !.failed_at = "create_tls", !.exc = "create_tls failed",
                          !.calls = @ \o <<"create_tls">>, !.res = Returned(FALSE)]]
          /\ mgr' = mg
          /\ UNCHANGED sessions
       \/ /\ sessions' = Append(sessions, Smartbridge(mg[m].bridge_ip))
          /\ mgr' = [mg EXCEPT ![m].bridge = Len(sessions) + 1]
          /\ task' = [task EXCEPT ![t] = [tk EXCEPT !.m = m, !.s = Len(sessions) + 1,
                          !.pc = "connecting",
                          !.calls = @ \o <<"create_tls", "connect">>]]

\* await self.bridge.connect() returns or raises (server.py:130-135).
ConnectDone(t) ==
    /\ task[t].pc = "connecting" /\ MayRun(t)
    /\ \E ok \in BOOLEAN :
          /\ sessions' = IF ok THEN [sessions EXCEPT ![task[t].s].state = "connected"]
                         ELSE sessions
          /\ mgr' = [mgr EXCEPT ![task[t].m] = connect_finish(@, ok)]
          /\ task' = [task EXCEPT ![t] = [@ EXCEPT !.pc = "ret", !.res = Returned(ok),
                          !.failed_at = IF ok THEN @ ELSE "bridge.connect",
                          !.exc = IF ok THEN @ ELSE "Connection failed"]]
    /\ UNCHANGED <<cwd, dispatch, umask, environ, fs, runs, server_state, phase, last>>

\* disconnect(), up to its await (server.py:139-140).
EnterDisconnect(t, tk, m) ==
    IF disconnect_guard(mgr[m])
    THEN task' = [task EXCEPT ![t] = [tk EXCEPT !.m = m, !.s = mgr[m].bridge,
                      !.pc = "closing", !.calls = @ \o <<"close">>]]
    ELSE task' = [task EXCEPT ![t] = [tk EXCEPT !.m = m, !.pc = "ret",
                      !.res = Returned("None")]]

\* await self.bridge.close() returns (server.py:140-141).
CloseDone(t) ==
    /\ task[t].pc = "closing" /\ MayRun(t)
    /\ sessions' = [sessions EXCEPT ![task[t].s].state = "closed"]
    /\ mgr' = [mgr EXCEPT ![task[t].m] = disconnect_finish(@)]
    /\ task' = [task EXCEPT ![t] = [@ EXCEPT !.pc = "ret", !.res = Returned("None")]]
    /\ UNCHANGED <<cwd, dispatch, umask, environ, fs, runs, server_state, phase, last>>

\* get_devices_by_domain(domain) (server.py:143-149): no await inside.
EnterGetDevices(t, tk, m, domain, yield) ==
    task' = [task EXCEPT ![t] =
        IF not_connected(mgr[m])
        THEN [tk EXCEPT !.m = m, !.domain = domain, !.pc = "ret", !.res = Raised(NOT_CONNECTED)]
        ELSE [tk EXCEPT !.m = m, !.s = mgr[m].bridge, !.domain = domain, !.pc = "ret",
                 !.calls = @ \o <<<<"get_devices_by_domain", domain>>>>,
                 !.yield = yield,
                 !.res = Returned(devices_or_empty(yield))]]

\* turn_on / turn_off / set_level, up to the await of the bridge client
\* (server.py:151-157, 163-169, 175-185).  call is the delegate's name.
EnterDeviceCall(t, tk, m, call, dev, level) ==
    task' = [task EXCEPT ![t] =
        IF not_connected(mgr[m])
        THEN [tk EXCEPT !.m = m, !.dev = dev, !.level = level, !.pc = "ret",
                 !.res = Raised(NOT_CONNECTED)]
        ELSE IF call = "set_value" /\ ~level_in_range(level)
        THEN [tk EXCEPT !.m = m, !.dev = dev, !.level = level, !.pc = "ret",
                 !.res = Raised(LEVEL_RANGE)]
        ELSE [tk EXCEPT !.m = m, !.s = mgr[m].bridge, !.dev = dev, !.level = level,
                 !.pc = "bridge_call",
                 !.calls = @ \o <<IF call = "set_value" THEN <<call, dev, level>>
                                  ELSE <<call, dev>>>>]]

\* A failed bridge call taken as the loss of the connection.
BridgeCallDone_drops_connection(t) ==
    /\ task[t].pc = "bridge_call" /\ MayRun(t)
    /\ \E ok \in BOOLEAN :
          /\ task' = [task EXCEPT ![t] = [@ EXCEPT !.pc = "ret", !.res = Returned(ok),
                          !.exc = IF ok THEN @ ELSE "bridge call failed"]]
          /\ mgr' = IF ok THEN mgr ELSE [mgr EXCEPT ![task[t].m].connected = FALSE]
    /\ UNCHANGED <<cwd, dispatch, umask, environ, fs, runs, sessions, server_state, phase, last>>

\* The exception of the bridge call passed on to the caller.
BridgeCallDone_propagates(t) ==
    /\ task[t].pc = "bridge_call" /\ MayRun(t)
    /\ \E ok \in BOOLEAN :
          task' = [task EXCEPT ![t] = [@ EXCEPT !.pc = "ret",
                       !.res = IF ok THEN Returned(TRUE) ELSE Raised("bridge call failed"),
                       !.exc = IF ok THEN @ ELSE "bridge call failed"]]
    /\ UNCHANGED <<cwd, dispatch, umask, environ, fs, runs, mgr, sessions, server_state, phase, last>>

\* The awaited bridge call returns (True) or raises (logged, False):
\* server.py:156-161, 168-173, 183-189.
BridgeCallDone(t) ==
    /\ task[t].pc = "bridge_call" /\ MayRun(t)
    /\ \E ok \in BOOLEAN :
          task' = [task EXCEPT ![t] = [@ EXCEPT !.pc = "ret", !.res = Returned(ok),
                       !.exc = IF ok THEN @ ELSE "bridge call failed"]]
    /\ UNCHANGED <<cwd, dispatch, umask, environ, fs, runs, mgr, sessions, server_state, phase, last>>

\* ---------------------------------- the manager's methods called directly
ManagerOps == {"connect", "disconnect", "get_devices_by_domain", "turn_on", "turn_off", "set_level"}
DeviceOps == {"get_devices_by_domain", "turn_on", "turn_off", "set_level"}

Begin(op) == [IdleTask EXCEPT !.op = op, !.pre = Snapshot]

NewManager(host) ==
    /\ AllIdle /\ Len(mgr) < MaxManagers
    /\ mgr' = Append(mgr, LutronCasetaManager(host, <<"/", "path", "to", "key">>,
                             <<"/", "path", "to", "cert">>, <<"/", "path", "to", "ca">>))
    /\ UNCHANGED <<cwd, dispatch, umask, environ, fs, runs, sessions, server_state, phase, task, last>>

CallConnect(t, m) ==
    /\ AllIdle /\ FreeSlot(t)
    /\ EnterConnect(t, Begin("connect"), mgr, m)
    /\ last' = NoLast
    /\ UNCHANGED <<cwd, dispatch, umask, environ, fs, runs, server_state, phase>>

CallDisconnect(t, m) ==
    /\ AllIdle /\ FreeSlot(t)
    /\ EnterDisconnect(t, Begin("disconnect"), m)
    /\ last' = NoLast
    /\ UNCHANGED <<cwd, dispatch, umask, environ, fs, runs, mgr, sessions, server_state, phase>>

CallGetDevices(t, m, domain, yield) ==
    /\ AllIdle /\ FreeSlot(t)
    /\ EnterGetDevices(t, Begin("get_devices_by_domain"), m, domain, yield)
    /\ last' = NoLast
    /\ UNCHANGED <<cwd, dispatch, umask, environ, fs, runs, mgr, sessions, server_state, phase>>

CallTurnOn(t, m, dev) ==
    /\ AllIdle /\ FreeSlot(t)
    /\ EnterDeviceCall(t, Begin("turn_on"), m, "turn_on", dev, 0)
    /\ last' = NoLast
    /\ UNCHANGED <<cwd, dispatch, umask, environ, fs, runs, mgr, sessions, server_state, phase>>

CallTurnOff(t, m, dev) ==
    /\ AllIdle /\ FreeSlot(t)
    /\ EnterDeviceCall(t, Begin("turn_off"), m, "turn_off", dev, 0)
    /\ last' = NoLast
    /\ UNCHANGED <<cwd, dispatch, umask, environ, fs, runs, mgr, sessions, server_state, phase>>

CallSetLevel(t, m, dev, level) ==
    /\ AllIdle /\ FreeSlot(t)
    /\ EnterDeviceCall(t, Begin("set_level"), m, "set_value", dev, level)
    /\ last' = NoLast
    /\ UNCHANGED <<cwd, dispatch, umask, environ, fs, runs, mgr, sessions, server_state, phase>>

ManagerReturn(t) ==
    /\ task[t].pc = "ret" /\ task[t].op \in ManagerOps
    /\ last' = Finished(t, task[t].res)
    /\ task' = [task EXCEPT ![t] = IdleTask]
    /\ UNCHANGED <<cwd, dispatch, umask, environ, fs, runs, mgr, sessions, server_state, phase>>

Managers == 1..Len(mgr)

\* tests/test_server.py constructs every manager for this address.
TestHost == "192.168.1.100"

InitManager ==
    /\ cwd = CWD
    /\ dispatch = "one_at_a_time"
    /\ umask = 18
    /\ environ = [LUTRON_BRIDGE_IP |-> Unset, LUTRON_CERT_DIR |-> Unset]
    /\ fs = NoFs
    /\ runs = 0
    /\ mgr = <<>>
    /\ sessions = <<>>
    /\ server_state = NoServerState
    /\ phase = "off"
    /\ task = [t \in Tasks |-> IdleTask]
    /\ last = NoLast

NextManager ==
    \/ NewManager(TestHost)
    \/ \E t \in Tasks, m \in Managers : CallConnect(t, m)
    \/ \E t \in Tasks, m \in Managers : CallDisconnect(t, m)
    \/ \E t \in Tasks, m \in Managers, domain \in Domains, yield \in DeviceLists :
            CallGetDevices(t, m, domain, yield)
    \/ \E t \in Tasks, m \in Managers, dev \in Devices : CallTurnOn(t, m, dev)
    \/ \E t \in Tasks, m \in Managers, dev \in Devices : CallTurnOff(t, m, dev)
    \/ \E t \in Tasks, m \in Managers, dev \in Devices, level \in Levels :
            CallSetLevel(t, m, dev, level)
    \/ \E t \in Tasks : ConnectDone(t)
    \/ \E t \in Tasks : CloseDone(t)
    \/ \E t \in Tasks : BridgeCallDone(t)
    \/ \E t \in Tasks : ManagerReturn(t)

SpecManager == InitManager /\ [][NextManager]_vars

\* ------------------------------------------- LutronConfig, MCPServerState
\* server.py:37-47
from_env(env) ==
    LET cert_dir == get_cert_dir(env)
    IN  [exists |-> TRUE,
         bridge_ip |-> getenv(env, "LUTRON_BRIDGE_IP", ""),
         cert_dir |-> cert_dir,
         key_path |-> path_join(cert_dir, KEY_FILE),
         cert_path |-> path_join(cert_dir, CERT_FILE),
         ca_path |-> path_join(cert_dir, CA_FILE)]

\* server.py:49-52
is_complete(config) == config.bridge_ip # "" /\ config.cert_dir # <<>>

\* server.py:63-66
MCPServerState ==
    [exists |-> TRUE, config |-> [exists |-> FALSE], caseta_manager |-> 0,
     connected |-> FALSE]

\* The configuration rebuilt from the environment on every call, and the
\* manager reference dropped.
update_config_resets(ss, bridge_ip) ==
    [ss EXCEPT !.config = [from_env(environ) EXCEPT !.bridge_ip = bridge_ip],
               !.caseta_manager = 0]

\* The configuration created when absent, its address left as it is.
update_config_keeps_address(ss, bridge_ip) ==
    [ss EXCEPT !.config = IF ss.config.exists THEN ss.config ELSE from_env(environ)]

\* server.py:104-110
update_config(ss, bridge_ip) ==
    LET config == IF ss.config.exists THEN ss.config ELSE from_env(environ)
    IN  [ss EXCEPT !.config = [config EXCEPT !.bridge_ip = bridge_ip]]

TOOL_NOT_CONNECTED ==
    "RuntimeError: Not connected to Lutron Caseta bridge. Use pair_bridge tool first."

\* A guard that forgets the connected flag of the server state.
tool_not_connected_no_flag(ss) == ~ss.exists \/ ss.caseta_manager = 0

\* server.py:326, 341, 351, 361:
\* if not server_state or not server_state.caseta_manager or not server_state.connected
tool_not_connected(ss) == ~ss.exists \/ ss.caseta_manager = 0 \/ ~ss.connected

\* What the tools are called with.
HostInputs == {<<"10.0.0.1">>, <<" ", "10.0.0.2", " ">>, <<"not-an-ip">>, <<>>}
DomainInputs == {<<"light">>, <<" ", "FAN", " ">>, <<"bogus">>, <<>>}
LevelInputs == {PyInt(50), PyInt(150), PyStr("50")}

DeviceTools == {"list_devices", "turn_on_device", "turn_off_device", "set_device_level"}

\* The handlers are callable once the module is loaded ("off", as the tests
\* call them) and while the lifespan serves.
ToolPhase == phase \in {"off", "serving"}

\* A request starts only when no other is running; where the RPC layer lets
\* requests overlap, when every other one is suspended at an await.
Serial(t) ==
    /\ ToolPhase /\ FreeSlot(t)
    /\ IF dispatch = "overlapping" THEN \A u \in Tasks : ~Sync(u) ELSE AllIdle

\* ------------------------------------------- initialize() and cleanup()
\* A configuration with which initialize() goes on to connect
\* (server.py:72, 79).
can_connect(config, f) == is_complete(config) /\ certificates_exist(f)

\* server.py:68-89: initialize() on the server state ss with the files f, up
\* to the await of connect().  The configuration is rebuilt from the
\* environment; a manager is constructed only with a complete configuration
\* and all three files present, otherwise the call returns False at once.
initialize(t, ss, f) ==
    LET config == from_env(environ)
        tk == [Begin("initialize") EXCEPT !.pre = [Snapshot EXCEPT !.server_state = ss]]
        m == Len(mgr) + 1
    IN  IF ~can_connect(config, f)
        THEN /\ server_state' = [ss EXCEPT !.config = config]
             /\ last' = FinishedOf(tk, Returned(FALSE))
             /\ UNCHANGED <<mgr, sessions, task>>
        ELSE /\ server_state' = [ss EXCEPT !.config = config, !.caseta_manager = m]
             /\ last' = NoLast
             /\ EnterConnect(t, [tk EXCEPT !.mcalls = <<"connect">>],
                    Append(mgr, LutronCasetaManager(config.bridge_ip, config.key_path,
                                    config.cert_path, config.ca_path)), m)

\* The flag left as it was when connect() has returned.
InitializeReturn_keeps_flag(t) ==
    /\ task[t].pc = "ret" /\ task[t].op = "initialize"
    /\ phase' = IF phase = "starting" THEN "serving" ELSE phase
    /\ last' = Finished(t, Returned(task[t].res.value))
    /\ task' = [task EXCEPT ![t] = IdleTask]
    /\ UNCHANGED <<cwd, dispatch, umask, environ, fs, runs, mgr, sessions, server_state>>

\* server.py:89-95: self.connected = await self.caseta_manager.connect();
\* return self.connected
InitializeReturn(t) ==
    /\ task[t].pc = "ret" /\ task[t].op = "initialize"
    /\ server_state' = [server_state EXCEPT !.connected = task[t].res.value]
    /\ phase' = IF phase = "starting" THEN "serving" ELSE phase
    /\ last' = Finished(t, Returned(task[t].res.value))
    /\ task' = [task EXCEPT ![t] = IdleTask]
    /\ UNCHANGED <<cwd, dispatch, umask, environ, fs, runs, mgr, sessions>>

\* server.py:97-100: cleanup() up to the await in disconnect(); without a
\* manager it clears the flag and returns at once (server.py:102).
cleanup(t) ==
    LET tk == Begin("cleanup")
    IN  IF server_state.caseta_manager # 0
        THEN /\ EnterDisconnect(t, [tk EXCEPT !.mcalls = <<"disconnect">>],
                                server_state.caseta_manager)
             /\ last' = NoLast
             /\ UNCHANGED server_state
        ELSE /\ server_state' = [server_state EXCEPT !.connected = FALSE]
             /\ last' = FinishedOf(tk, Returned("None"))
             /\ UNCHANGED task

\* server.py:213-217: when the cleanup of the finally clause is done the
\* lifespan exits, returning, or re-raising what ended the serving phase.
lifespan_exit(p) ==
    IF p = "stopping" THEN "stopped" ELSE IF p = "aborting" THEN "aborted" ELSE p

\* The flag left as it was when disconnect() has returned.
CleanupReturn_keeps_flag(t) ==
    /\ task[t].pc = "ret" /\ task[t].op = "cleanup"
    /\ phase' = lifespan_exit(phase)
    /\ last' = Finished(t, Returned("None"))
    /\ task' = [task EXCEPT ![t] = IdleTask]
    /\ UNCHANGED <<cwd, dispatch, umask, environ, fs, runs, mgr, sessions, server_state>>

\* server.py:101-102
CleanupReturn(t) ==
    /\ task[t].pc = "ret" /\ task[t].op = "cleanup"
    /\ server_state' = [server_state EXCEPT !.connected = FALSE]
    /\ phase' = lifespan_exit(phase)
    /\ last' = Finished(t, Returned("None"))
    /\ task' = [task EXCEPT ![t] = IdleTask]
    /\ UNCHANGED <<cwd, dispatch, umask, environ, fs, runs, mgr, sessions>>

\* ----------------------------------------------------------- app_lifespan
\* server.py:196-210: the server state is created, the certificate directory
\* made, and initialize() called on the new state.
Startup(t) ==
    /\ phase = "off" /\ AllIdle /\ FreeSlot(t)
    /\ \E made \in BOOLEAN :
        LET f1 == mkdir(fs, "ok")
        IN  IF ~made /\ ~fs.dir
            THEN /\ server_state' = MCPServerState
                 /\ phase' = "failed"
                 /\ last' = FinishedOf(Begin("app_lifespan"), Raised("makedirs failed"))
                 /\ UNCHANGED <<fs, mgr, sessions, task>>
            ELSE /\ fs' = f1
                 /\ initialize(t, MCPServerState, f1)
                 /\ phase' = IF can_connect(from_env(environ), f1) THEN "starting"
                             ELSE "serving"
    /\ UNCHANGED <<cwd, dispatch, umask, environ, runs>>

\* server.py:214-217: the lifespan ends and calls cleanup().
Shutdown(t) ==
    /\ phase = "serving" /\ AllIdle /\ FreeSlot(t)
    /\ cleanup(t)
    /\ \E raised \in BOOLEAN :
          LET p == IF raised THEN "aborting" ELSE "stopping"
          IN  phase' = IF server_state.caseta_manager # 0 THEN p ELSE lifespan_exit(p)
    /\ UNCHANGED <<cwd, dispatch, umask, environ, fs, runs, mgr, sessions>>

\* ------------------------------------------------------- pair_bridge_tool
\* server.py:241-265: validate the host, check the server state, resolve
\* the directory, enter pair_bridge.
pair_bridge_tool(t, host) ==
    /\ Serial(t)
    /\ LET v == validate_host_ip(host)
           tk == [Begin("pair_bridge_tool") EXCEPT !.input = host,
                      !.pre = [fs |-> fs, runs |-> runs] @@ Snapshot]
       IN  IF ~v.ok
           THEN /\ last' = FinishedOf(tk, Returned(
                        [success |-> FALSE, message |-> <<"INVALID INPUT: ", v.error>>,
                         connected |-> FALSE]))
                /\ UNCHANGED <<task, runs>>
           ELSE IF ~server_state.exists
           THEN /\ last' = FinishedOf(tk, Returned(
                        [success |-> FALSE, message |-> "ERROR: Server state not initialized",
                         connected |-> FALSE]))
                /\ UNCHANGED <<task, runs>>
           ELSE /\ Len(mgr) < MaxManagers /\ Len(sessions) < MaxSessions
                /\ runs < MaxRuns
                /\ runs' = runs + 1
                /\ task' = [task EXCEPT ![t] =
                       [tk EXCEPT !.pc = pair_bridge_next("start"), !.host = v.value,
                                  !.dir = expanduser(get_cert_dir(environ)),
                                  !.cb = "returns", !.bundle = runs + 1,
                                  !.calls = <<"async_pair">>]]
                /\ last' = NoLast
    /\ UNCHANGED <<cwd, dispatch, umask, environ, fs, mgr, sessions, server_state, phase>>

\* The configuration updated before the result is looked at.
PairToolAfterPair_updates_first(t) ==
    /\ task[t].pc = "pb_return" /\ task[t].op = "pair_bridge_tool"
    /\ LET result == task[t].res.value
           cert_dir == get_cert_dir(environ)
           m == Len(mgr) + 1
       IN  IF result.success
           THEN /\ server_state' = [update_config(server_state, task[t].host)
                                        EXCEPT !.caseta_manager = m]
                /\ EnterConnect(t, [task[t] EXCEPT !.paired = result,
                                                   !.mcalls = <<"connect">>],
                       Append(mgr, LutronCasetaManager(task[t].host,
                                       path_join(cert_dir, KEY_FILE),
                                       path_join(cert_dir, CERT_FILE),
                                       path_join(cert_dir, CA_FILE))), m)
                /\ UNCHANGED last
           ELSE /\ last' = Finished(t, Returned(
                        [success |-> FALSE, message |-> <<"FAILED: ", result.message>>,
                         connected |-> FALSE]))
                /\ task' = [task EXCEPT ![t] = IdleTask]
                /\ server_state' = update_config(server_state, task[t].host)
                /\ UNCHANGED <<mgr, sessions>>
    /\ UNCHANGED <<cwd, dispatch, umask, environ, fs, runs, phase>>

\* The failure result carrying the flag of the server state.
PairToolAfterPair_reports_flag(t) ==
    /\ task[t].pc = "pb_return" /\ task[t].op = "pair_bridge_tool"
    /\ LET result == task[t].res.value
           cert_dir == get_cert_dir(environ)
           m == Len(mgr) + 1
       IN  IF result.success
           THEN /\ server_state' = [update_config(server_state, task[t].host)
                                        EXCEPT !.caseta_manager = m]
                /\ EnterConnect(t, [task[t] EXCEPT !.paired = result,
                                                   !.mcalls = <<"connect">>],
                       Append(mgr, LutronCasetaManager(task[t].host,
                                       path_join(cert_dir, KEY_FILE),
                                       path_join(cert_dir, CERT_FILE),
                                       path_join(cert_dir, CA_FILE))), m)
                /\ UNCHANGED last
           ELSE /\ last' = Finished(t, Returned(
                        [success |-> FALSE, message |-> <<"FAILED: ", result.message>>,
                         connected |-> server_state.connected]))
                /\ task' = [task EXCEPT ![t] = IdleTask]
                /\ UNCHANGED <<mgr, sessions, server_state>>
    /\ UNCHANGED <<cwd, dispatch, umask, environ, fs, runs, phase>>

\* server.py:265-276 and 285-291: pair_bridge has returned.  On success the
\* configuration takes the host, a new manager replaces the reference held
\* by the server state, and its connect() is entered.
PairToolAfterPair(t) ==
    /\ task[t].pc = "pb_return" /\ task[t].op = "pair_bridge_tool"
    /\ LET result == task[t].res.value
           cert_dir == get_cert_dir(environ)
           m == Len(mgr) + 1
       IN  IF result.success
           THEN /\ server_state' = [update_config(server_state, task[t].host)
                                        EXCEPT !.caseta_manager = m]
                /\ EnterConnect(t, [task[t] EXCEPT !.paired = result,
                                                   !.mcalls = <<"connect">>],
                       Append(mgr, LutronCasetaManager(task[t].host,
                                       path_join(cert_dir, KEY_FILE),
                                       path_join(cert_dir, CERT_FILE),
                                       path_join(cert_dir, CA_FILE))), m)
                /\ UNCHANGED last
           ELSE /\ last' = Finished(t, Returned(
                        [success |-> FALSE, message |-> <<"FAILED: ", result.message>>,
                         connected |-> FALSE]))
                /\ task' = [task EXCEPT ![t] = IdleTask]
                /\ UNCHANGED <<mgr, sessions, server_state>>
    /\ UNCHANGED <<cwd, dispatch, umask, environ, fs, runs, phase>>

\* The request that returns takes the manager reference back for the manager
\* it constructed.
PairToolReturn_takes_reference(t) ==
    /\ task[t].pc = "ret" /\ task[t].op = "pair_bridge_tool"
    /\ LET connected == task[t].res.value
       IN  /\ server_state' = [server_state EXCEPT !.connected = connected,
                                                   !.caseta_manager = task[t].m]
           /\ last' = Finished(t, Returned(
                  [success |-> TRUE,
                   message |-> <<"SUCCESS: Bridge paired successfully! ", task[t].paired.message>>,
                   connected |-> connected,
                   certificate_files |-> task[t].paired.data]))
    /\ task' = [task EXCEPT ![t] = IdleTask]
    /\ UNCHANGED <<cwd, dispatch, umask, environ, fs, runs, mgr, sessions, phase>>

\* The result's success taken from connect().
PairToolReturn_success_is_connected(t) ==
    /\ task[t].pc = "ret" /\ task[t].op = "pair_bridge_tool"
    /\ LET connected == task[t].res.value
       IN  /\ server_state' = [server_state EXCEPT !.connected = connected]
           /\ last' = Finished(t, Returned(
                  [success |-> connected,
                   message |-> <<"SUCCESS: Bridge paired successfully! ", task[t].paired.message>>,
                   connected |-> connected,
                   certificate_files |-> task[t].paired.data]))
    /\ task' = [task EXCEPT ![t] = IdleTask]
    /\ UNCHANGED <<cwd, dispatch, umask, environ, fs, runs, mgr, sessions, phase>>

\* The result saying "connected" whatever connect() returned.
PairToolReturn_says_connected(t) ==
    /\ task[t].pc = "ret" /\ task[t].op = "pair_bridge_tool"
    /\ LET connected == task[t].res.value
       IN  /\ server_state' = [server_state EXCEPT !.connected = connected]
           /\ last' = Finished(t, Returned(
                  [success |-> TRUE,
                   message |-> <<"SUCCESS: Bridge paired successfully! ", task[t].paired.message>>,
                   connected |-> TRUE,
                   certificate_files |-> task[t].paired.data]))
    /\ task' = [task EXCEPT ![t] = IdleTask]
    /\ UNCHANGED <<cwd, dispatch, umask, environ, fs, runs, mgr, sessions, phase>>

\* server.py:275-284
PairToolReturn(t) ==
    /\ task[t].pc = "ret" /\ task[t].op = "pair_bridge_tool"
    /\ LET connected == task[t].res.value
       IN  /\ server_state' = [server_state EXCEPT !.connected = connected]
           /\ last' = Finished(t, Returned(
                  [success |-> TRUE,
                   message |-> <<"SUCCESS: Bridge paired successfully! ", task[t].paired.message>>,
                   connected |-> connected,
                   certificate_files |-> task[t].paired.data]))
    /\ task' = [task EXCEPT ![t] = IdleTask]
    /\ UNCHANGED <<cwd, dispatch, umask, environ, fs, runs, mgr, sessions, phase>>

\* server.py:301-315
check_connection(t) ==
    /\ Serial(t)
    /\ last' = FinishedOf(Begin("check_connection"), Returned(
           [bridge_ip |-> getenv(environ, "LUTRON_BRIDGE_IP", ""),
            cert_dir |-> get_cert_dir(environ),
            certificates |-> check_certificates(fs),
            connected |-> IF server_state.exists THEN server_state.connected ELSE FALSE]))
    /\ UNCHANGED <<cwd, dispatch, umask, environ, fs, runs, mgr, sessions, server_state, phase, task>>

\* ------------------------------------------------------- the device tools
\* server.py:318-334
list_devices(t, domain, yield) ==
    /\ Serial(t)
    /\ LET tk == [Begin("list_devices") EXCEPT !.input = domain]
           v == validate_domain(domain)
       IN  IF tool_not_connected(server_state)
           THEN last' = FinishedOf(tk, Raised(TOOL_NOT_CONNECTED)) /\ UNCHANGED task
           ELSE IF ~v.ok
           THEN last' = FinishedOf(tk, Raised(<<"ValueError: ", v.error>>)) /\ UNCHANGED task
           ELSE /\ EnterGetDevices(t, [tk EXCEPT !.mcalls = <<"get_devices_by_domain">>],
                                   server_state.caseta_manager, v.value, yield)
                /\ last' = NoLast
    /\ UNCHANGED <<cwd, dispatch, umask, environ, fs, runs, mgr, sessions, server_state, phase>>

\* server.py:338-344 and 348-354: tool is "turn_on" or "turn_off"
OnOffTool(t, tool, dev) ==
    /\ Serial(t)
    /\ LET tk == [Begin(tool \o "_device") EXCEPT !.input = dev]
       IN  IF tool_not_connected(server_state)
           THEN last' = FinishedOf(tk, Raised(TOOL_NOT_CONNECTED)) /\ UNCHANGED task
           ELSE /\ EnterDeviceCall(t, [tk EXCEPT !.mcalls = <<tool>>],
                                   server_state.caseta_manager, tool, dev, 0)
                /\ last' = NoLast
    /\ UNCHANGED <<cwd, dispatch, umask, environ, fs, runs, mgr, sessions, server_state, phase>>

turn_on_device(t, dev) == OnOffTool(t, "turn_on", dev)
turn_off_device(t, dev) == OnOffTool(t, "turn_off", dev)

\* server.py:358-369
set_device_level(t, dev, level) ==
    /\ Serial(t)
    /\ LET tk == [Begin("set_device_level") EXCEPT !.input = level]
           v == validate_device_level(level)
       IN  IF tool_not_connected(server_state)
           THEN last' = FinishedOf(tk, Raised(TOOL_NOT_CONNECTED)) /\ UNCHANGED task
           ELSE IF ~v.ok
           THEN last' = FinishedOf(tk, Raised(<<"ValueError: ", v.error>>)) /\ UNCHANGED task
           ELSE /\ EnterDeviceCall(t, [tk EXCEPT !.mcalls = <<"set_level">>],
                                   server_state.caseta_manager, "set_value", dev, v.value)
                /\ last' = NoLast
    /\ UNCHANGED <<cwd, dispatch, umask, environ, fs, runs, mgr, sessions, server_state, phase>>

\* The payload of a call that reached the manager says success regardless
\* of the boolean the manager returned.
tool_result_always_success(tk) ==
    IF tk.res.raised # NoExc THEN tk.res
    ELSE IF tk.op = "list_devices" THEN Returned(tk.res.value)
    ELSE IF tk.op = "turn_on_device"
    THEN Returned([device_id |-> tk.dev, action |-> "turn_on", success |-> TRUE])
    ELSE IF tk.op = "turn_off_device"
    THEN Returned([device_id |-> tk.dev, action |-> "turn_off", success |-> TRUE])
    ELSE Returned([device_id |-> tk.dev, action |-> "set_level", level |-> tk.level,
                   success |-> TRUE])

\* server.py:335, 345, 355, 370: what the tool hands back; an exception of
\* the manager's method passes through.
tool_result(tk) ==
    IF tk.res.raised # NoExc THEN tk.res
    ELSE IF tk.op = "list_devices" THEN Returned(tk.res.value)
    ELSE IF tk.op = "turn_on_device"
    THEN Returned([device_id |-> tk.dev, action |-> "turn_on", success |-> tk.res.value])
    ELSE IF tk.op = "turn_off_device"
    THEN Returned([device_id |-> tk.dev, action |-> "turn_off", success |-> tk.res.value])
    ELSE Returned([device_id |-> tk.dev, action |-> "set_level", level |-> tk.level,
                   success |-> tk.res.value])

DeviceToolReturn(t) ==
    /\ task[t].pc = "ret" /\ task[t].op \in DeviceTools
    /\ last' = Finished(t, tool_result(task[t]))
    /\ task' = [task EXCEPT ![t] = IdleTask]
    /\ UNCHANGED <<cwd, dispatch, umask, environ, fs, runs, mgr, sessions, server_state, phase>>

\* ---------------------------------------------------------------- the server
\* The credentials a run of the standalone pairing utility left before the
\* server started (bundle 0).
PairedFs(um) ==
    [dir |-> TRUE,
     files |-> (CA_FILE :> File(Blob(0, "ca"), TRUE, BitClear(438, um)))
            @@ (CERT_FILE :> File(Blob(0, "cert"), TRUE, BitClear(438, um)))
            @@ (KEY_FILE :> File(Blob(0, "key"), TRUE, OWNER_ONLY))]

Init ==
    /\ cwd = CWD
    /\ dispatch = "one_at_a_time"
    /\ umask = 18
    /\ environ \in [LUTRON_BRIDGE_IP : {Unset, "10.0.0.1"},
                    LUTRON_CERT_DIR : {Unset, <<"/", "etc", "ssl">>}]
    /\ fs \in {NoFs, PairedFs(umask)}
    /\ runs = 0
    /\ mgr = <<>>
    /\ sessions = <<>>
    /\ server_state = NoServerState
    /\ phase = "off"
    /\ task = [t \in Tasks |-> IdleTask]
    /\ last = NoLast

Next ==
    \/ \E t \in Tasks : Startup(t)
    \/ \E t \in Tasks : InitializeReturn(t)
    \/ \E t \in Tasks : Shutdown(t)
    \/ \E t \in Tasks : CleanupReturn(t)
    \/ \E t \in Tasks, host \in HostInputs : pair_bridge_tool(t, host)
    \/ \E t \in Tasks : AsyncPairDone(t)
    \/ \E t \in Tasks : Mkdir(t)
    \/ \E t \in Tasks : WriteCa(t)
    \/ \E t \in Tasks : WriteCert(t)
    \/ \E t \in Tasks : WriteKey(t)
    \/ \E t \in Tasks : Chmod(t)
    \/ \E t \in Tasks : BuildResult(t)
    \/ \E t \in Tasks : PairToolAfterPair(t)
    \/ \E t \in Tasks : PairToolReturn(t)
    \/ \E t \in Tasks : check_connection(t)
    \/ \E t \in Tasks, domain \in DomainInputs, yield \in DeviceLists :
            list_devices(t, domain, yield)
    \/ \E t \in Tasks, dev \in Devices : turn_on_device(t, dev)
    \/ \E t \in Tasks, dev \in Devices : turn_off_device(t, dev)
    \/ \E t \in Tasks, dev \in Devices, level \in LevelInputs : set_device_level(t, dev, level)
    \/ \E t \in Tasks : ConnectDone(t)
    \/ \E t \in Tasks : CloseDone(t)
    \/ \E t \in Tasks : BridgeCallDone(t)
    \/ \E t \in Tasks : DeviceToolReturn(t)

Spec == Init /\ [][Next]_vars

\* ------------------- the server with set_level also called directly
\* The server as in Spec; besides the tools, set_level is called directly on
\* the manager a serving server references, with levels the tool layer would
\* not let through.
NextLayers ==
    \/ Next
    \/ \E t \in Tasks, dev \in Devices, level \in Levels :
            /\ phase = "serving" /\ server_state.caseta_manager # 0
            /\ CallSetLevel(t, server_state.caseta_manager, dev, level)
    \/ \E t \in Tasks : ManagerReturn(t)

SpecLayers == Init /\ [][NextLayers]_vars

\* ------------------------------------- the server with overlapping requests
\* The server as in Spec, behind an RPC layer that does not wait for one
\* request to return before it starts the next.
InitOverlap ==
    /\ cwd = CWD
    /\ dispatch = "overlapping"
    /\ umask = 18
    /\ environ \in [LUTRON_BRIDGE_IP : {Unset, "10.0.0.1"}, LUTRON_CERT_DIR : {Unset}]
    /\ fs \in {NoFs, PairedFs(umask)}
    /\ runs = 0
    /\ mgr = <<>>
    /\ sessions = <<>>
    /\ server_state = NoServerState
    /\ phase = "off"
    /\ task = [t \in Tasks |-> IdleTask]
    /\ last = NoLast

SpecOverlap == InitOverlap /\ [][Next]_vars

\* ------------------------- the server state's methods called directly
\* initialize(), cleanup() and update_config() called on the server state in
\* any order, one call at a time, along with the pair tool, which assigns
\* the state's manager reference and flag itself (server.py:268-276).
CallInitialize(t) ==
    /\ Serial(t) /\ Len(mgr) < MaxManagers
    /\ initialize(t, server_state, fs)
    /\ UNCHANGED <<cwd, dispatch, umask, environ, fs, runs, phase>>

CallCleanup(t) ==
    /\ Serial(t)
    /\ cleanup(t)
    /\ UNCHANGED <<cwd, dispatch, umask, environ, fs, runs, mgr, sessions, phase>>

CallUpdateConfig(t, bridge_ip) ==
    /\ Serial(t)
    /\ server_state' = update_config(server_state, bridge_ip)
    /\ last' = FinishedOf([Begin("update_config") EXCEPT !.host = bridge_ip], Returned(TRUE))
    /\ UNCHANGED <<cwd, dispatch, umask, environ, fs, runs, mgr, sessions, phase, task>>

\* The state app_lifespan constructs (server.py:202), serving.
InitState ==
    /\ cwd = CWD
    /\ dispatch = "one_at_a_time"
    /\ umask = 18
    /\ environ \in [LUTRON_BRIDGE_IP : {Unset, "10.0.0.1"}, LUTRON_CERT_DIR : {Unset}]
    /\ fs \in {NoFs, PairedFs(umask)}
    /\ runs = 0
    /\ mgr = <<>>
    /\ sessions = <<>>
    /\ server_state = MCPServerState
    /\ phase = "serving"
    /\ task = [t \in Tasks |-> IdleTask]
    /\ last = NoLast

NextState ==
    \/ \E t \in Tasks : CallInitialize(t)
    \/ \E t \in Tasks : InitializeReturn(t)
    \/ \E t \in Tasks : CallCleanup(t)
    \/ \E t \in Tasks : CleanupReturn(t)
    \/ \E t \in Tasks, bridge_ip \in Hosts : CallUpdateConfig(t, bridge_ip)
    \/ \E t \in Tasks, host \in HostInputs : pair_bridge_tool(t, host)
    \/ \E t \in Tasks : AsyncPairDone(t)
    \/ \E t \in Tasks : Mkdir(t)
    \/ \E t \in Tasks : WriteCa(t)
    \/ \E t \in Tasks : WriteCert(t)
    \/ \E t \in Tasks : WriteKey(t)
    \/ \E t \in Tasks : Chmod(t)
    \/ \E t \in Tasks : BuildResult(t)
    \/ \E t \in Tasks : PairToolAfterPair(t)
    \/ \E t \in Tasks : PairToolReturn(t)
    \/ \E t \in Tasks : ConnectDone(t)
    \/ \E t \in Tasks : CloseDone(t)

SpecState == InitState /\ [][NextState]_vars

\* ------------------------------- the validators and helpers on their own
\* Each behaviour is one call of one function: the initial state holds the
\* argument (or the environment, or the directory) and the step applies it.
MaxStrLen == 3
MaxPathLen == 4
LevelSpan == 3

\* The sequences over S of length at most n.
SeqsUpTo(S, n) == {SubSeq(f, 1, Len(f)) : f \in UNION {[1..k -> S] : k \in 0..n}}

\* tests/test_validation.py:63-82
LevelValues ==
    {PyInt(v) : v \in (0 - LevelSpan)..(100 + LevelSpan)}
        \cup {PyBool(0), PyBool(1)}
        \cup {PyOther("str", "50"), PyOther("float", "50.5"),
              PyOther("NoneType", "None"), PyOther("list", "[50]"),
              PyOther("dict", "{level: 50}")}

\* tests/test_validation.py:88-128
DomainTokens ==
    {" ", "light", "switch", "cover", "sensor", "fan",
     "LIGHT", "SWITCH", "Cover", "SENSOR", "Fan", "lights", "bogus"}
DomainValues == SeqsUpTo(DomainTokens, MaxStrLen)

\* tests/test_validation.py:134-170, over the components that matter for
\* HOME and TMP; "/" only leads a path.
PathTokens == {"/", "~", "..", "home", "user", "tmp", "etc", " "}
CertDirValues ==
    {p \in SeqsUpTo(PathTokens, MaxPathLen) : \A i \in 2..Len(p) : p[i] # "/"}

\* Where the process may have been started: outside the home directory, or
\* in a project below it.
Cwds == {CWD, HOME \o <<"proj">>}

\* A directory holding the given credential files.
DirWith(present) ==
    [dir |-> TRUE, files |-> [n \in present |-> File(Blob(0, n), TRUE, 420)]]

PureCall(op, input) == [IdleTask EXCEPT !.op = op, !.pc = "call", !.input = input]

InitPure ==
    /\ dispatch = "one_at_a_time"
    /\ umask = 18
    /\ runs = 0
    /\ mgr = <<>>
    /\ sessions = <<>>
    /\ server_state = NoServerState
    /\ phase = "off"
    /\ last = NoLast
    /\ \E op \in {"validate_device_level", "validate_domain", "validate_cert_directory",
                   "get_cert_dir", "check_certificates", "certificates_exist"} :
          /\ cwd \in (IF op \in {"validate_cert_directory", "get_cert_dir"}
                       THEN Cwds ELSE {CWD})
          /\ \/ environ = [LUTRON_BRIDGE_IP |-> Unset, LUTRON_CERT_DIR |-> Unset]
             \/ /\ op = "get_cert_dir"
                /\ \E override \in CertDirValues :
                      environ = [LUTRON_BRIDGE_IP |-> Unset, LUTRON_CERT_DIR |-> override]
          /\ fs \in (IF op \in {"check_certificates", "certificates_exist"}
                      THEN {NoFs} \cup {DirWith(present) : present \in SUBSET FileNames}
                      ELSE {NoFs})
          /\ \E input \in (CASE op = "validate_device_level" -> LevelValues
                              [] op = "validate_domain" -> DomainValues
                              [] op = "validate_cert_directory" -> CertDirValues
                              [] OTHER -> {<<>>}) :
                task = [t \in Tasks |-> IF t = 1 THEN PureCall(op, input) ELSE IdleTask]

\* raise ValidationError(...) against return
raise_or_return(v) ==
    IF v.ok THEN Returned(v.value) ELSE Raised(<<"ValidationError: ", v.error>>)

ApplyPure(t, op, outcome) ==
    /\ task[t].op = op /\ task[t].pc = "call"
    /\ last' = Finished(t, outcome)
    /\ task' = [task EXCEPT ![t] = IdleTask]
    /\ UNCHANGED <<cwd, dispatch, umask, environ, fs, runs, mgr, sessions, server_state, phase>>

CallValidateDeviceLevel(t) ==
    ApplyPure(t, "validate_device_level",
              raise_or_return(validate_device_level(task[t].input)))

CallValidateDomain(t) ==
    ApplyPure(t, "validate_domain", raise_or_return(validate_domain(task[t].input)))

CallValidateCertDirectory(t) ==
    ApplyPure(t, "validate_cert_directory",
              raise_or_return(validate_cert_directory(task[t].input)))

CallGetCertDir(t) ==
    ApplyPure(t, "get_cert_dir", Returned(get_cert_dir(environ)))

CallCheckCertificates(t) ==
    ApplyPure(t, "check_certificates", Returned(check_certificates(fs)))

CallCertificatesExist(t) ==
    ApplyPure(t, "certificates_exist", Returned(certificates_exist(fs)))

NextPure ==
    \E t \in Tasks :
        \/ CallValidateDeviceLevel(t)
        \/ CallValidateDomain(t)
        \/ CallValidateCertDirectory(t)
        \/ CallGetCertDir(t)
        \/ CallCheckCertificates(t)
        \/ CallCertificatesExist(t)

SpecPure == InitPure /\ [][NextPure]_vars

\* ------------------------------------------------ claims on pair_bridge
PairBridgeDone == last.op = "pair_bridge"
PersistSteps == {"async_pair", "mkdir", "write_ca", "write_cert", "write_key", "chmod"}

\* The file `name` holds all of bundle b's blob `part`.
Holds(f, name, b, part) ==
    Exists(f, name) /\ f.files[name].blob = Blob(b, part) /\ f.files[name].whole

\* C6: pair_bridge never raises past its boundary: whatever step failed
\* (the pairing primitive, the ready callback, mkdir, a file write, chmod),
\* it returns a PairingResult with success false whose message is built from
\* the causing error.
C6_PairBridgeNeverRaises ==
    PairBridgeDone =>
        /\ last.raised = NoExc
        /\ last.failed_at # "" =>
              /\ last.value.success = FALSE
              /\ last.value.message = <<"Pairing failed: ", last.exc>>

C6_Witness ==
    /\ PairBridgeDone /\ last.failed_at = "chmod"
    /\ last.exc = "chmod: Operation not permitted"
    /\ last.value.success = FALSE

\* C7: success is authoritative: pair_bridge returns success true exactly
\* when the primitive yielded a bundle and every persistence step (the three
\* writes and the chmod of the key) went through; and then the three files
\* hold that bundle and the key file is owner-only.
C7_SuccessAuthoritative ==
    (PairBridgeDone /\ last.raised = NoExc) =>
        /\ last.value.success <=> PersistSteps \subseteq last.steps
        /\ (last.value.success /\ AllIdle) =>
              /\ Holds(fs, CA_FILE, last.bundle, "ca")
              /\ Holds(fs, CERT_FILE, last.bundle, "cert")
              /\ Holds(fs, KEY_FILE, last.bundle, "key")
              /\ OwnerOnly(fs.files[KEY_FILE].mode)

C7_Witness ==
    /\ PairBridgeDone /\ last.value.success /\ AllIdle
    /\ last.bundle = 2 /\ umask = 18
    /\ Holds(fs, KEY_FILE, 2, "key")

\* C8: when the pairing primitive raises, the result is a failure whose
\* message carries the cause's text, and the filesystem is as it was before
\* the call: no directory created, no credential file created or modified.
C8_PrimitiveFailureWritesNothing ==
    (PairBridgeDone /\ last.failed_at = "async_pair") =>
        /\ last.raised = NoExc
        /\ last.value.success = FALSE
        /\ last.value.message = <<"Pairing failed: ", last.exc>>
        /\ AllIdle => fs = last.pre

C8_Witness ==
    /\ PairBridgeDone /\ last.failed_at = "async_pair" /\ AllIdle
    /\ last.exc = "Pairing timeout"
    /\ ~fs.dir

\* C9: a successful run against a directory that did not exist creates it
\* and leaves exactly the three files, holding the bundle's CA, client
\* certificate and key, the key file with mode 0o600; the result carries the
\* bundle's version and the three paths.
C9_SuccessCreatesBundle ==
    (PairBridgeDone /\ last.raised = NoExc /\ last.value.success
        /\ ~last.pre.dir /\ AllIdle) =>
        /\ fs.dir
        /\ DOMAIN fs.files = FileNames
        /\ Holds(fs, CA_FILE, last.bundle, "ca")
        /\ Holds(fs, CERT_FILE, last.bundle, "cert")
        /\ Holds(fs, KEY_FILE, last.bundle, "key")
        /\ fs.files[KEY_FILE].mode = OWNER_ONLY
        /\ last.value.data =
              [version |-> Blob(last.bundle, "version"),
               ca_path |-> Append(DEFAULT_CERT_DIR, CA_FILE),
               cert_path |-> Append(DEFAULT_CERT_DIR, CERT_FILE),
               key_path |-> Append(DEFAULT_CERT_DIR, KEY_FILE)]

C9_Witness ==
    /\ PairBridgeDone /\ last.value.success /\ ~last.pre.dir /\ AllIdle
    /\ fs.dir /\ umask = 18

\* C10: whenever caseta.key holds key material written by a pairing run,
\* also between the steps of a run and after a run that failed part-way,
\* its permission bits allow access by the owner only.
C10_KeyFileOwnerOnly ==
    (Exists(fs, KEY_FILE) /\ fs.files[KEY_FILE].whole) =>
        OwnerOnly(fs.files[KEY_FILE].mode)

\* ------------------------------------- claims on LutronCasetaManager
\* The manager a finished or running call was made on, as it was at the call.
PreMgr(c) == c.pre.mgr[c.m]
WasDisconnected(c) == ~PreMgr(c).connected \/ PreMgr(c).bridge = 0

\* C1: a device operation (get_devices_by_domain, turn_on, turn_off,
\* set_level) called on a manager whose connected flag is false, or that has
\* no bridge session, fails with the "Not connected" error and makes no call
\* to the bridge client.
C1_NotConnectedGuard ==
    /\ (last.op \in DeviceOps /\ WasDisconnected(last)) =>
          /\ last.raised = NOT_CONNECTED
          /\ last.calls = <<>>
    /\ \A t \in Tasks :
          (task[t].op \in DeviceOps /\ WasDisconnected(task[t])) =>
              /\ task[t].pc = "ret"
              /\ task[t].res = Raised(NOT_CONNECTED)
              /\ task[t].calls = <<>>

C1_Witness ==
    /\ last.op = "set_level" /\ last.level = 100
    /\ PreMgr(last).bridge # 0 /\ ~PreMgr(last).connected
    /\ last.raised = NOT_CONNECTED

\* C4: connect() on a disconnected manager never raises; when create_tls
\* and the handshake both go through it sets connected and returns true,
\* and when either raises it leaves connected false and returns false.
C4_ConnectReturnsBoolean ==
    (last.op = "connect" /\ ~PreMgr(last).connected) =>
        /\ last.raised = NoExc
        /\ last.failed_at = "" => (last.value = TRUE /\ mgr[last.m].connected)
        /\ last.failed_at # "" => (last.value = FALSE /\ ~mgr[last.m].connected)

C4_Witness ==
    /\ last.op = "connect" /\ ~PreMgr(last).connected
    /\ last.failed_at = "bridge.connect" /\ last.value = FALSE
    /\ mgr[last.m].bridge # 0

\* C5: disconnect() is idempotent: on a connected manager it closes the
\* session once and leaves the manager disconnected; on a disconnected one
\* (a second disconnect() included) it changes nothing, does not call close
\* and raises nothing.
C5_DisconnectIdempotent ==
    last.op = "disconnect" =>
        /\ last.raised = NoExc
        /\ PreMgr(last).connected =>
              /\ last.calls = <<"close">>
              /\ ~mgr[last.m].connected
              /\ sessions[PreMgr(last).bridge].state = "closed"
        /\ ~PreMgr(last).connected =>
              /\ last.calls = <<>>
              /\ mgr[last.m] = PreMgr(last)
              /\ sessions = last.pre.sessions

C5_Witness ==
    /\ last.op = "disconnect" /\ ~PreMgr(last).connected
    /\ PreMgr(last).bridge # 0
    /\ sessions[PreMgr(last).bridge].state = "closed"
    /\ last.calls = <<>>

\* ---------------------------------------------- claims on the server
\* The server state a finished or running tool call started from.
ToolWasNotConnected(c) ==
    \/ ~c.pre.server_state.exists
    \/ c.pre.server_state.caseta_manager = 0
    \/ ~c.pre.server_state.connected

\* C2: a device tool (list_devices, turn_on_device, turn_off_device,
\* set_device_level) called while the server state is absent, has no
\* manager, or has its connected flag false fails with the "Not connected
\* ... Use pair_bridge tool first" error and calls no method of a manager.
C2_ToolNotConnectedGuard ==
    /\ (last.op \in DeviceTools /\ ToolWasNotConnected(last)) =>
          /\ last.raised = TOOL_NOT_CONNECTED
          /\ last.mcalls = <<>>
          /\ last.calls = <<>>
    /\ \A t \in Tasks : task[t].op \in DeviceTools => ~ToolWasNotConnected(task[t])

C2_Witness ==
    /\ last.op = "set_device_level" /\ last.input = PyInt(50)
    /\ last.pre.server_state.caseta_manager # 0
    /\ ~last.pre.server_state.connected
    /\ last.raised = TOOL_NOT_CONNECTED

\* A manager with its flag set and its session open.
Live(m) ==
    /\ mgr[m].connected
    /\ mgr[m].bridge # 0
    /\ sessions[mgr[m].bridge].state = "connected"

\* C3: at most one manager is live at any time: no manager other than the
\* one the server state references holds a connected session.
C3_AtMostOneLiveManager ==
    \A m \in Managers :
        Live(m) => (server_state.exists /\ server_state.caseta_manager = m)

\* ------------------------------------------ claims on the credential files
\* The three files hold all of run b's bundle.
AllFromRun(f, b) ==
    /\ Holds(f, CA_FILE, b, "ca")
    /\ Holds(f, CERT_FILE, b, "cert")
    /\ Holds(f, KEY_FILE, b, "key")

\* The file `name` is in g exactly as it is in f.
SameFile(f, g, name) ==
    /\ Exists(f, name) <=> Exists(g, name)
    /\ Exists(f, name) => f.files[name] = g.files[name]

\* The file `name` was opened by run b's write that failed: a prefix of the blob.
TornFile(f, name, b, part) ==
    Exists(f, name) /\ f.files[name].blob = Blob(b, part) /\ ~f.files[name].whole

\* The write steps of pair_bridge with the file and the blob of each.
WriteSteps ==
    {<<"write_ca", CA_FILE, "ca">>, <<"write_cert", CERT_FILE, "cert">>,
     <<"write_key", KEY_FILE, "key">>}

\* C11 as stated: after any pairing run returns, the three credential files
\* are either all from that run's bundle or all exactly as they were before
\* the run; so three files that exist and are whole belong to one run.
C11_NeverPartiallyWritten ==
    (PairBridgeDone /\ AllIdle) =>
        /\ AllFromRun(fs, last.bundle) \/ fs.files = last.pre.files
        /\ (\A n \in FileNames : Exists(fs, n)) =>
              \A n1, n2 \in FileNames : fs.files[n1].blob[1] = fs.files[n2].blob[1]

\* C11 amended: the files are overwritten one at a time, in the order CA,
\* client certificate, key, without rollback.  After a run that returns
\* success all three are from its bundle; after a run that failed before its
\* first write all are exactly as before; after a run that failed later, the
\* files written before the failing step are from its bundle, the file of
\* the failing write is untouched or holds a prefix of its blob, and the
\* files after it are exactly as before.
C11_OverwrittenInOrderNoRollback ==
    (PairBridgeDone /\ AllIdle) =>
        /\ last.value.success => AllFromRun(fs, last.bundle)
        /\ last.failed_at \in {"async_pair", "mkdir"} => fs.files = last.pre.files
        /\ \A w \in WriteSteps :
              IF w[1] \in last.steps THEN Holds(fs, w[2], last.bundle, w[3])
              ELSE IF last.failed_at = w[1]
              THEN SameFile(fs, last.pre, w[2]) \/ TornFile(fs, w[2], last.bundle, w[3])
              ELSE SameFile(fs, last.pre, w[2])

\* A second run failed at the client certificate: the CA file is of run 2,
\* the key file still of run 1.
C11_Witness ==
    /\ PairBridgeDone /\ AllIdle /\ last.failed_at = "write_cert"
    /\ Holds(fs, CA_FILE, 2, "ca")
    /\ Holds(fs, KEY_FILE, 1, "key")

\* ------------------------------------------- claims on MCPServerState
InitializeDone == last.op = "initialize"

\* The bridge address is missing from the environment, or one of the three
\* credential files is absent.
CannotConnect ==
    \/ getenv(environ, "LUTRON_BRIDGE_IP", "") = ""
    \/ get_cert_dir(environ) = <<>>
    \/ \E n \in FileNames : ~Exists(fs, n)

\* C12: with the bridge address or the certificate directory missing, or one
\* of the three credential files absent, initialize() returns False, has
\* constructed no manager and attempted no connection; no initialize() is
\* ever awaiting a connection in such a configuration.
C12_InitializeReturnsEarly ==
    /\ (InitializeDone /\ CannotConnect) =>
          /\ last.raised = NoExc /\ last.value = FALSE
          /\ last.mcalls = <<>> /\ last.calls = <<>>
          /\ mgr = last.pre.mgr
          /\ sessions = last.pre.sessions
          /\ server_state.caseta_manager = last.pre.server_state.caseta_manager
    /\ \A t \in Tasks : task[t].op = "initialize" => ~CannotConnect

\* The address is set and only some of the files are there.
C12_Witness ==
    /\ InitializeDone /\ last.value = FALSE
    /\ getenv(environ, "LUTRON_BRIDGE_IP", "") # ""
    /\ Exists(fs, CA_FILE) /\ ~Exists(fs, KEY_FILE)

\* C13 as stated: whatever the server state was before, the boolean
\* initialize() returns equals the state's connected flag right after the
\* call, and the flag is true only if connect() on the manager the call
\* constructed returned true.
C13_ReturnEqualsFlag ==
    InitializeDone =>
        /\ last.raised = NoExc
        /\ last.value = server_state.connected
        /\ server_state.connected =>
              /\ last.mcalls = <<"connect">>
              /\ mgr[last.m].connected

\* C13 amended: a call that goes on to connect() returns what connect() on
\* the manager it constructed returned, and the flag right after the call
\* equals it; a call that returns early returns False and leaves the flag as
\* it was, so the two agree when the flag was false before the call.
C13_ReturnEqualsFlagAfterConnect ==
    InitializeDone =>
        /\ last.raised = NoExc
        /\ IF last.mcalls = <<"connect">>
           THEN /\ last.value = server_state.connected
                /\ last.value = mgr[last.m].connected
                /\ last.m \notin 1..Len(last.pre.mgr)
                /\ server_state.caseta_manager = last.m
           ELSE /\ last.value = FALSE
                /\ server_state.connected = last.pre.server_state.connected
        /\ ~last.pre.server_state.connected => last.value = server_state.connected

\* initialize() on a connected state whose new connect() failed.
C13_Witness ==
    /\ InitializeDone /\ last.pre.server_state.connected
    /\ last.mcalls = <<"connect">> /\ last.value = FALSE
    /\ ~server_state.connected

CleanupDone == last.op = "cleanup"

\* The state has no manager, or a manager that is Disconnected with the
\* flag of the state clear.
Clean(c) ==
    LET ss == c.pre.server_state
    IN  \/ ss.caseta_manager = 0
        \/ ~ss.connected /\ ~c.pre.mgr[ss.caseta_manager].connected

\* C14: cleanup() raises nothing and leaves the flag of the state false and
\* the manager, if there is one, Disconnected with its session closed when
\* it was open; called again, or with no manager, it closes no session and
\* changes nothing.
C14_CleanupIdempotent ==
    CleanupDone =>
        /\ last.raised = NoExc
        /\ ~server_state.connected
        /\ server_state.caseta_manager = last.pre.server_state.caseta_manager
        /\ server_state.caseta_manager # 0 =>
              LET mg == mgr[server_state.caseta_manager]
              IN  /\ ~mg.connected
                  /\ last.pre.mgr[server_state.caseta_manager].connected =>
                        /\ last.calls = <<"close">>
                        /\ sessions[mg.bridge].state = "closed"
        /\ Clean(last) =>
              /\ last.calls = <<>>
              /\ mgr = last.pre.mgr
              /\ sessions = last.pre.sessions
              /\ server_state = last.pre.server_state

\* A cleanup() after the one that closed the session.
C14_Witness ==
    /\ CleanupDone /\ last.calls = <<>>
    /\ server_state.caseta_manager # 0
    /\ mgr[server_state.caseta_manager].bridge # 0
    /\ sessions[mgr[server_state.caseta_manager].bridge].state = "closed"

\* The derived paths are the directory joined with the fixed filenames.
DerivedPaths(config) ==
    /\ config.key_path = path_join(config.cert_dir, KEY_FILE)
    /\ config.cert_path = path_join(config.cert_dir, CERT_FILE)
    /\ config.ca_path = path_join(config.cert_dir, CA_FILE)

\* C15: update_config(address) builds the configuration from the
\* environment only when there is none, then overwrites the address alone:
\* directory, derived paths, manager reference and flag are as before; and
\* in every state the derived paths are cert_dir joined with the filenames.
C15_UpdateConfigFrame ==
    /\ (server_state.exists /\ server_state.config.exists) =>
          DerivedPaths(server_state.config)
    /\ last.op = "update_config" =>
          LET before == IF last.pre.server_state.config.exists
                        THEN last.pre.server_state.config
                        ELSE from_env(environ)
          IN  /\ last.raised = NoExc /\ last.value = TRUE
              /\ server_state.config = [before EXCEPT !.bridge_ip = last.host]
              /\ server_state.caseta_manager = last.pre.server_state.caseta_manager
              /\ server_state.connected = last.pre.server_state.connected

\* update_config on a connected state: the address changes under the manager.
C15_Witness ==
    /\ last.op = "update_config"
    /\ last.pre.server_state.connected
    /\ last.pre.server_state.config.bridge_ip = "10.0.0.1"
    /\ server_state.config.bridge_ip = "10.0.0.2"
    /\ server_state.caseta_manager # 0

\* ---------------------------------------------------- claims on the tools
PairToolDone == last.op = "pair_bridge_tool"

\* The addresses among HostInputs that are no IP literal.
InvalidHosts == {<<"not-an-ip">>, <<>>}
\* The domains among DomainInputs outside the five, the levels among
\* LevelInputs that are no integer of 0..100.
InvalidDomains == {<<"bogus">>, <<>>}
InvalidLevels == {PyInt(150), PyStr("50")}

\* The cause validation.py:30, 37 gives for an address it rejects.
HostError(host) ==
    IF host = <<>> THEN "Host IP cannot be empty"
    ELSE <<"Invalid IP address format: ", host>>

\* C16: the pair tool called with an address that is no IP literal returns a
\* result with success false and connected false, starts no pairing run,
\* writes no file and leaves configuration, manager reference and flag as
\* they were.
C16_InvalidHostRejected ==
    (PairToolDone /\ last.input \in InvalidHosts) =>
        /\ last.raised = NoExc
        /\ last.value.success = FALSE
        /\ last.value.connected = FALSE
        /\ runs = last.pre.runs /\ last.steps = {} /\ last.bundle = 0
        /\ fs = last.pre.fs
        /\ server_state = last.pre.server_state
        /\ mgr = last.pre.mgr /\ sessions = last.pre.sessions
        /\ <<"INVALID INPUT: ", HostError(last.input)>> = last.value.message

C16_Witness ==
    /\ PairToolDone /\ last.input = <<"not-an-ip">>
    /\ last.value.success = FALSE
    /\ last.pre.server_state.connected /\ server_state.connected

\* The call was made with an input its validator rejects.
InvalidToolInput(c) ==
    \/ c.op = "list_devices" /\ c.input \in InvalidDomains
    \/ c.op = "set_device_level" /\ c.input \in InvalidLevels

\* The ValueError a device tool raises for the input (server.py:332, 367).
ValidationFailure(c) ==
    IF c.op = "list_devices" THEN <<"ValueError: ", validate_domain(c.input).error>>
    ELSE <<"ValueError: ", validate_device_level(c.input).error>>

\* C17: list_devices with an invalid domain and set_device_level with an
\* invalid level are rejected with the validation failure in every server
\* state, connected or not, and never with the "not connected" failure.
C17_ValidationBeforeState ==
    (last.op \in DeviceTools /\ InvalidToolInput(last)) =>
        /\ ValidationFailure(last) = last.raised
        /\ last.mcalls = <<>>

Tools == DeviceTools \cup {"pair_bridge_tool", "check_connection"}

C19_PairSuccessUpdatesState ==
    (PairToolDone /\ last.raised = NoExc /\ last.value.success) =>
        LET m == server_state.caseta_manager
            cert_dir == get_cert_dir(environ)
        IN  /\ last.host = strip(last.input)[1]
            /\ server_state.config.bridge_ip = last.host
            /\ m = last.m /\ m \notin 1..Len(last.pre.mgr)
            /\ mgr[m].bridge_ip = last.host
            /\ mgr[m].key_path = Append(cert_dir, KEY_FILE)
            /\ mgr[m].cert_path = Append(cert_dir, CERT_FILE)
            /\ mgr[m].ca_path = Append(cert_dir, CA_FILE)
            /\ last.mcalls = <<"connect">>
            /\ mgr[m].connected = last.value.connected
            /\ server_state.connected = last.value.connected

\* A re-pairing on a connected state whose connect() failed.
C19_Witness ==
    /\ PairToolDone /\ last.value.success /\ ~last.value.connected
    /\ last.input = <<" ", "10.0.0.2", " ">>
    /\ last.pre.server_state.connected /\ ~server_state.connected

\* C20: when the pairing run of the pair tool returns a failure, the tool
\* returns success false and connected false, and configuration, manager
\* reference and flag are as before the call; no connect() is attempted.
C20_PairFailureLeavesState ==
    (PairToolDone /\ last.failed_at \in PersistSteps) =>
        /\ last.raised = NoExc
        /\ last.value.success = FALSE
        /\ last.value.connected = FALSE
        /\ server_state = last.pre.server_state
        /\ mgr = last.pre.mgr /\ sessions = last.pre.sessions
        /\ last.mcalls = <<>>

\* A pairing that timed out on a connected state.
C20_Witness ==
    /\ PairToolDone /\ last.failed_at = "async_pair" /\ last.exc = "Pairing timeout"
    /\ last.pre.server_state.connected /\ server_state.connected

\* A set-level call handed to a manager that was connected when it began.
OutOfRange(level) == level < 0 \/ level > 100
SetValueOnce(c, level) == c.calls = <<<<"set_value", c.dev, level>>>>

\* C21: set-level with a level outside 0..100 is rejected before any call to
\* the bridge client, by the set_device_level tool and by the manager's
\* set_level alike; set-level with a level inside 0..100 on a connected
\* manager calls the bridge client's set_value exactly once, with the given
\* device id and level.
C21_SetLevelRangeAtBothLayers ==
    /\ (last.op = "set_level" /\ OutOfRange(last.level)) =>
          /\ last.raised # NoExc
          /\ last.calls = <<>>
          /\ ~WasDisconnected(last) => last.raised = LEVEL_RANGE
    /\ (last.op = "set_level" /\ ~OutOfRange(last.level) /\ ~WasDisconnected(last)) =>
          /\ last.raised = NoExc
          /\ SetValueOnce(last, last.level)
    /\ (last.op = "set_device_level" /\ last.input.type = "int"
          /\ OutOfRange(last.input.v)) =>
          /\ last.raised # NoExc
          /\ last.mcalls = <<>>
          /\ last.calls = <<>>
    /\ (last.op = "set_device_level" /\ last.input.type = "int"
          /\ ~OutOfRange(last.input.v) /\ ~ToolWasNotConnected(last)
          /\ ~WasDisconnected(last)) =>
          /\ last.raised = NoExc
          /\ last.mcalls = <<"set_level">>
          /\ SetValueOnce(last, last.input.v)
    /\ \A t \in Tasks :
          task[t].op \in {"set_level", "set_device_level"} =>
              \/ task[t].calls = <<>>
              \/ ~OutOfRange(task[t].level) /\ SetValueOnce(task[t], task[t].level)

C21_Witness ==
    /\ last.op = "set_level" /\ last.level = 101
    /\ ~WasDisconnected(last)
    /\ last.raised = LEVEL_RANGE /\ last.calls = <<>>

\* The tools that delegate to turn_on, turn_off and set_level.
SwitchTools == {"turn_on_device", "turn_off_device", "set_device_level"}

\* C22: while connected, turn_on, turn_off and set_level (with a valid
\* level) never pass on an exception raised by the bridge client: the call
\* returns false when the delegate raised and true when it completed, and
\* the tool reports that boolean as the success field of its result.
C22_BridgeFailureBecomesFalse ==
    /\ (last.op \in SwitchTools /\ last.calls # <<>>) =>
          /\ last.raised = NoExc
          /\ last.value.success = (last.exc = NoExc)
          /\ last.value.device_id = last.dev
    /\ \A t \in Tasks :
          (task[t].op \in SwitchTools /\ task[t].pc = "ret" /\ task[t].calls # <<>>) =>
              task[t].res = Returned(task[t].exc = NoExc)

C22_Witness ==
    /\ last.op = "turn_on_device" /\ last.calls = <<<<"turn_on", "1">>>>
    /\ last.exc = "bridge call failed"
    /\ last.raised = NoExc /\ last.value.success = FALSE

\* C23: on a connected manager, get_devices_by_domain asks the bridge client
\* once, for the given domain, and returns exactly what the client yields;
\* when the client yields no result (None) it returns the empty list, never
\* None.
C23_DevicesAsYielded ==
    (last.op = "get_devices_by_domain" /\ ~WasDisconnected(last)) =>
        /\ last.raised = NoExc
        /\ last.calls = <<<<"get_devices_by_domain", last.domain>>>>
        /\ IF last.yield = "None" THEN <<>> = last.value
                                   ELSE last.yield = last.value

C23_Witness ==
    /\ last.op = "get_devices_by_domain" /\ ~WasDisconnected(last)
    /\ last.domain = "fan"
    /\ last.yield = "None" /\ <<>> = last.value

\* ----------------------------------------------- claims on the validators
ValidationError(msg) == <<"ValidationError: ", msg>>

\* C24: level validation returns the input unchanged for every integer in
\* 0..100, rejects every integer outside that range with the range error,
\* and rejects every input that is not an integer (string, float, None,
\* list, dict) with the type error naming its type, handing back no value.
C24_LevelValidation ==
    last.op = "validate_device_level" =>
        LET level == last.input
        IN  /\ (level.type = "int" /\ 0 <= level.v /\ level.v <= 100) =>
                   last.raised = NoExc /\ last.value = level.v
            /\ (level.type = "int" /\ (level.v < 0 \/ level.v > 100)) =>
                   /\ ValidationError(<<"Device level must be between 0 and 100, got ",
                                        level.v>>) = last.raised
                   /\ last.value = "None"
            /\ level.type \in {"str", "float", "NoneType", "list", "dict"} =>
                   /\ ValidationError(<<"Device level must be an integer, got ",
                                        level.type>>) = last.raised
                   /\ last.value = "None"

C24_Witness ==
    /\ last.op = "validate_device_level"
    /\ last.input = PyInt(0)
    /\ last.raised = NoExc /\ last.value = 0

\* The spellings of a domain among the tokens drawn.
Spellings(d) ==
    CASE d = "light" -> {"light", "LIGHT"}
      [] d = "switch" -> {"switch", "SWITCH"}
      [] d = "cover" -> {"cover", "Cover"}
      [] d = "sensor" -> {"sensor", "SENSOR"}
      [] d = "fan" -> {"fan", "Fan"}
FiveDomains == {"light", "switch", "cover", "sensor", "fan"}
Words(str) == {i \in DOMAIN str : str[i] # " "}

\* C25: domain validation accepts exactly the inputs that, white space at
\* the ends aside, spell one of light, switch, cover, sensor, fan in any
\* case, and returns that domain in lower case; an empty or white-space-only
\* input is rejected as empty and every other input as an invalid domain;
\* validating an accepted result again returns the same value.
C25_DomainValidation ==
    last.op = "validate_domain" =>
        LET domain == last.input
            named == {d \in FiveDomains :
                         \E i \in DOMAIN domain :
                             Words(domain) = {i} /\ domain[i] \in Spellings(d)}
        IN  /\ Words(domain) = {} =>
                   ValidationError("Domain cannot be empty") = last.raised
            /\ (Words(domain) # {} /\ named = {}) =>
                   /\ last.raised # NoExc
                   /\ last.raised[1] = "ValidationError: "
                   /\ last.raised[2][1] = "Invalid domain "
            /\ named # {} =>
                   /\ last.raised = NoExc
                   /\ named = {last.value}
                   /\ validate_domain(<<last.value>>) = Valid(last.value)

C25_Witness ==
    /\ last.op = "validate_domain"
    /\ last.input = <<" ", "SENSOR", " ">>
    /\ last.raised = NoExc /\ last.value = "sensor"

\* The resolved absolute form of a path, and the safe locations.
Resolved(p) == resolve(expanduser(p))
UnderHomeOrTmp(p) == is_relative_to(p, HOME) \/ is_relative_to(p, TMP)
CertDirDone == last.op = "validate_cert_directory"

\* C26 as claimed: certificate-directory validation accepts a path if and
\* only if it is non-empty and its resolved absolute form lies under the
\* home directory or the temporary directory, everything else being
\* rejected with a validation failure; an accepted result is the resolved
\* path.
C26_AcceptsIffNonEmptyAndSafe ==
    CertDirDone =>
        /\ (last.raised = NoExc) <=>
               (last.input # <<>> /\ UnderHomeOrTmp(Resolved(last.input)))
        /\ last.raised = NoExc => last.value = Resolved(last.input)
        /\ last.raised # NoExc => last.raised[1] = "ValidationError: "

\* C26 amended: certificate-directory validation accepts a path if and only
\* if it is neither empty nor made of white space only and its resolved
\* absolute form lies under the home directory or the temporary directory,
\* everything else being rejected with a validation failure; an accepted
\* result is the resolved path.
C26_AcceptsIffNotBlankAndSafe ==
    CertDirDone =>
        /\ (last.raised = NoExc) <=>
               (last.input \notin {<<>>, <<" ">>} /\ UnderHomeOrTmp(Resolved(last.input)))
        /\ last.raised = NoExc => last.value = Resolved(last.input)
        /\ last.raised # NoExc => last.raised[1] = "ValidationError: "

C26_Witness ==
    /\ CertDirDone
    /\ last.input = <<"~", "..", "..", "etc">>
    /\ ValidationError(<<"Invalid certificate directory path: ", last.input>>) = last.raised

C28_CheckCertificates ==
    LET present == DOMAIN fs.files
    IN  /\ last.op = "check_certificates" =>
               /\ last.value.ca = ("caseta-bridge.crt" \in present)
               /\ last.value.cert = ("caseta.crt" \in present)
               /\ last.value.key = ("caseta.key" \in present)
        /\ last.op = "certificates_exist" =>
               last.value = (/\ "caseta-bridge.crt" \in present
                             /\ "caseta.crt" \in present
                             /\ "caseta.key" \in present)

C28_Witness ==
    /\ last.op = "check_certificates"
    /\ DOMAIN fs.files = {"caseta-bridge.crt"}
    /\ last.value = [ca |-> TRUE, cert |-> FALSE, key |-> FALSE]

\* ------------------------------------------------------ claims on retries
\* How often a call was made.
Times(calls, name) == Cardinality({i \in DOMAIN calls : calls[i] = name})

\* C29: there is no retry: a call of the pair tool that gets as far as
\* pair_bridge invokes the pairing primitive async_pair exactly once (and a
\* call that does not, never), starts at most one pairing run, constructs at
\* most one manager and calls its connect() at most once, whatever the
\* outcomes; a failed or timed-out attempt comes back as a failure result
\* after that single attempt.
C29_NoRetry ==
    /\ PairToolDone =>
          /\ Times(last.calls, "async_pair") = runs - last.pre.runs
          /\ Times(last.calls, "async_pair") =
                 (IF last.input \notin InvalidHosts /\ last.pre.server_state.exists
                  THEN 1 ELSE 0)
          /\ Times(last.calls, "create_tls") <= 1
          /\ Times(last.calls, "connect") <= 1
          /\ Len(last.mcalls) <= 1
          /\ Len(mgr) <= Len(last.pre.mgr) + 1
          /\ Len(sessions) <= Len(last.pre.sessions) + 1
          /\ last.exc \in AsyncPairErrors =>
                 /\ last.value.success = FALSE
                 /\ last.calls = <<"async_pair">>
                 /\ last.mcalls = <<>>
    /\ \A t \in Tasks :
          task[t].op = "pair_bridge_tool" =>
              /\ Times(task[t].calls, "async_pair") = 1
              /\ Times(task[t].calls, "connect") <= 1

C29_Witness ==
    /\ PairToolDone
    /\ last.exc = "Pairing timeout"
    /\ last.value.success = FALSE /\ last.value.connected = FALSE
    /\ last.calls = <<"async_pair">>
    /\ runs = last.pre.runs + 1

\* ------------------------------------------- claims on overlapping requests
\* Every task is idle or suspended at an await: the points at which the
\* event loop may run another request.
AtAwait == \A t \in Tasks : ~Sync(t)

\* C30: at every point where requests can interleave (pair requests, device
\* tool calls, initialize and cleanup overlapping at their awaits), the
\* server state's connected flag being true implies that the server state
\* references a manager and that this manager's own connected flag is true.
C30_FlagImpliesManagerConnected ==
    (AtAwait /\ server_state.exists /\ server_state.connected) =>
        /\ server_state.caseta_manager # 0
        /\ mgr[server_state.caseta_manager].connected

\* Managers are numbered as they are constructed, and a pair request
\* constructs its manager in the step in which its pairing run returns: the
\* manager with the highest number belongs to the request whose pairing run
\* returned last.
LastConstructed == Len(mgr)

\* C31: when pair requests overlap and their pairing runs succeed, the last
\* write to the manager reference wins: once the requests have returned,
\* the server state references the manager constructed by the request whose
\* pairing run returned last, whichever request returned last, and the
\* configuration's address is the address of that request.
C31_LastPairingRunWins ==
    (AllIdle /\ PairToolDone /\ last.value.success) =>
        /\ last.m <= LastConstructed
        /\ server_state.caseta_manager = LastConstructed
        /\ server_state.config.bridge_ip = mgr[LastConstructed].bridge_ip

C31_Witness ==
    /\ AllIdle /\ PairToolDone /\ last.value.success
    /\ last.pre.mgr = <<>>
    /\ last.m = 1 /\ LastConstructed = 2
    /\ mgr[1].bridge_ip = "10.0.0.1" /\ mgr[2].bridge_ip = "10.0.0.2"
    /\ server_state.caseta_manager = 2
    /\ server_state.config.bridge_ip = "10.0.0.2"

\* The persistence steps in the order of pairing.py:75-94.
PersistOrder == <<"mkdir", "write_ca", "write_cert", "write_key", "chmod">>

\* The first k persistence steps.
FirstSteps(k) == {PersistOrder[i] : i \in 1..k}

\* The presence maps in which no later file exists without the earlier ones.
PrefixShapes == {{}, {CA_FILE}, {CA_FILE, CERT_FILE}, {CA_FILE, CERT_FILE, KEY_FILE}}

\* C32: the persistence steps of a pairing run are taken in the order create
\* directory, write CA, write client certificate, write key, set the key's
\* permission; the run stops at the first step that fails and undoes nothing:
\* the steps completed are the ones before the failing step, and each file
\* whose write completed is still there with the run's blob.  So a run into
\* a directory with none of the three files leaves the files present in one
\* of the shapes (none), (ca), (ca, cert), (ca, cert, key).
C32_FixedOrderPrefixShapes ==
    (PairBridgeDone /\ AllIdle) =>
        /\ \E k \in 0..Len(PersistOrder) :
              /\ last.steps \ {"async_pair"} = FirstSteps(k)
              /\ IF last.value.success THEN k = Len(PersistOrder)
                 ELSE last.failed_at = "async_pair" \/
                      (k < Len(PersistOrder) /\ last.failed_at = PersistOrder[k + 1])
        /\ \A w \in WriteSteps :
              w[1] \in last.steps => Holds(fs, w[2], last.bundle, w[3])
        /\ last.pre.files = EmptyFiles => DOMAIN fs.files \in PrefixShapes

\* A run into an empty directory failed at opening the key file: the CA and
\* the client certificate are there, the key is not.
C32_Witness ==
    /\ PairBridgeDone /\ AllIdle /\ last.pre.files = EmptyFiles
    /\ last.failed_at = "write_key"
    /\ last.steps = {"async_pair", "mkdir", "write_ca", "write_cert"}
    /\ DOMAIN fs.files = {CA_FILE, CERT_FILE}

\* A credential set that is not the whole outcome of one successful run: one
\* of the files is missing or holds only a prefix of its blob, the files are
\* of different runs, or the key file is not owner-only.
Torn(f) ==
    \/ \E n \in FileNames : ~Exists(f, n) \/ ~f.files[n].whole
    \/ \E n1, n2 \in FileNames : f.files[n1].blob[1] # f.files[n2].blob[1]
    \/ f.files[KEY_FILE].mode # OWNER_ONLY

\* C33: a pairing run that starts from a torn credential set (any of the
\* three files present or not, whole or not, from earlier runs) and returns
\* success leaves each of the three files holding the whole blob of its own
\* bundle, none of the earlier content, and the key file owner-only.
C33_RerunRepairsTornSet ==
    (PairBridgeDone /\ AllIdle /\ Torn(last.pre) /\ last.value.success) =>
        /\ \A w \in WriteSteps :
              /\ Exists(fs, w[2])
              /\ fs.files[w[2]].blob = Bundle(last.bundle)[w[3]]
              /\ fs.files[w[2]].whole
              /\ Exists(last.pre, w[2]) => fs.files[w[2]].blob # last.pre.files[w[2]].blob
        /\ ~Torn(fs)

\* Run 1 left the CA whole, a prefix of the client certificate and no key;
\* run 2 returned success and the three files are of run 2.
C33_Witness ==
    /\ PairBridgeDone /\ AllIdle /\ last.value.success /\ last.bundle = 2
    /\ Holds(last.pre, CA_FILE, 1, "ca")
    /\ TornFile(last.pre, CERT_FILE, 1, "cert")
    /\ ~Exists(last.pre, KEY_FILE)
    /\ AllFromRun(fs, 2)
    /\ fs.files[KEY_FILE].mode = OWNER_ONLY

\* C34: a manager's connected flag is true exactly when its most recent
\* connect() succeeded and no disconnect() has completed since, also when
\* connect() is called on a manager that is already connected: when a
\* connect() has returned, the flag equals what it returned (so a connect()
\* that returned false leaves the manager disconnected), and when a
\* disconnect() has returned the flag is false.
C34_FlagTracksLastConnect ==
    /\ last.op = "connect" => (mgr[last.m].connected <=> last.value = TRUE)
    /\ last.op = "disconnect" => ~mgr[last.m].connected

\* C35: whenever the server state references a manager, after start-up and
\* after any tool call and at every step in between, that manager's bridge
\* address is the configuration's bridge address and its key, certificate
\* and CA paths are the configuration's paths.
C35_ManagerMatchesConfig ==
    (server_state.exists /\ server_state.caseta_manager # 0) =>
        LET manager == mgr[server_state.caseta_manager]
            config == server_state.config
        IN  /\ config.exists
            /\ manager.bridge_ip = config.bridge_ip
            /\ <<manager.key_path, manager.cert_path, manager.ca_path>> =
                  <<config.key_path, config.cert_path, config.ca_path>>

\* The server started with a manager for 10.0.0.1 and the pair tool has
\* replaced it by one for 10.0.0.2: the configuration has followed.
C35_Witness ==
    /\ PairToolDone /\ last.value.success
    /\ server_state.caseta_manager = 2
    /\ mgr[1].bridge_ip = "10.0.0.1"
    /\ last.pre.server_state.config.bridge_ip = "10.0.0.1"
    /\ mgr[2].bridge_ip = "10.0.0.2"
    /\ server_state.config.bridge_ip = "10.0.0.2"
    /\ mgr[2].key_path = server_state.config.key_path

\* C36 as stated: whatever the outcome of the pair tool, the connected flag
\* in its result equals the connected flag of the server state at the moment
\* it returns.
C36_ResultFlagEqualsStateFlag ==
    PairToolDone => last.value.connected = server_state.connected

\* C36 amended: when the pairing run succeeded, the connected flag in the
\* result equals the connected flag of the server state at the moment the
\* tool returns; in every other outcome the result's flag is false, whatever
\* the flag of the server state.
C36_ResultFlagOnSuccessElseFalse ==
    PairToolDone =>
        IF last.value.success THEN last.value.connected = server_state.connected
        ELSE last.value.connected = FALSE

\* A pairing run that failed at the client certificate on a connected
\* server: the result says not connected, the server state still connected.
C36_Witness ==
    /\ PairToolDone /\ ~last.value.success /\ last.failed_at = "write_cert"
    /\ ~last.value.connected
    /\ server_state.connected /\ mgr[server_state.caseta_manager].connected

\* C37: check-status reports the bridge address held in the configuration of
\* the server state, so that after the pair tool has returned success for an
\* address A every later check-status call, until another pairing succeeds,
\* reports A.
C37_StatusReportsConfiguredAddress ==
    (last.op = "check_connection" /\ server_state.exists) =>
        last.value.bridge_ip = server_state.config.bridge_ip

\* The lifespan has exited: after its cleanup, the serving phase having
\* ended normally or with an exception, or at start-up, makedirs having
\* raised.
LifespanExited == phase \in {"stopped", "aborted", "failed"}

\* C38: once the lifespan has exited, also when the serving phase ended with
\* an exception, the connected flag of the server state is false and the
\* manager it references, if any, is disconnected, its session not connected.
C38_ExitedMeansDisconnected ==
    LifespanExited =>
        /\ server_state.exists /\ ~server_state.connected
        /\ server_state.caseta_manager # 0 =>
              LET manager == mgr[server_state.caseta_manager]
              IN  /\ ~manager.connected
                  /\ manager.bridge # 0 => sessions[manager.bridge].state # "connected"
        /\ phase # "failed" => (last.op = "cleanup" /\ last.raised = NoExc)

\* A serving phase that ended with an exception on a connected server: the
\* cleanup has closed the session.
C38_Witness ==
    /\ phase = "aborted" /\ last.op = "cleanup"
    /\ last.pre.server_state.connected /\ last.calls = <<"close">>
    /\ ~server_state.connected
    /\ ~mgr[server_state.caseta_manager].connected
    /\ sessions[mgr[server_state.caseta_manager].bridge].state = "closed"

\* A device tool has returned after handing the call to the manager, whose
\* operation returned false (turn_on, turn_off, set_level) or returned its
\* list (get_devices_by_domain).
DelegateFailedOrListed ==
    /\ last.op \in DeviceTools /\ last.mcalls # <<>> /\ last.raised = NoExc
    /\ last.op = "list_devices" \/ last.value.success = FALSE

\* C39: a device operation whose call to the bridge client fails, and a
\* listing of devices, change no connection state: the managers with their
\* connected flags and session references, the sessions, and the server
\* state's manager reference, configuration and connected flag are as they
\* were before the call.
C39_DeviceOpsKeepConnectionState ==
    DelegateFailedOrListed =>
        /\ mgr = last.pre.mgr
        /\ sessions = last.pre.sessions
        /\ server_state = last.pre.server_state

\* A set-level call that the bridge client failed: the server is still
\* connected through the same session.
C39_Witness ==
    /\ last.op = "set_device_level" /\ DelegateFailedOrListed
    /\ last.exc = "bridge call failed"
    /\ server_state.connected /\ mgr[last.m].connected
    /\ mgr[last.m].bridge = last.s /\ sessions[last.s].state = "connected"

\* The pairing run of the finished pair tool call went through all of its
\* steps: the credentials are persisted.
PairingRunSucceeded == PersistSteps \subseteq last.steps

\* C40: in every result of the pair tool, connected true implies success
\* true; success is true exactly when the pairing run succeeded, the three
\* files then holding its bundle, whatever connect() did; and a result with
\* success true and connected false is returned exactly when the pairing run
\* succeeded and the connect() that followed returned false.
C40_SuccessIsPairingOutcome ==
    PairToolDone =>
        /\ last.raised = NoExc
        /\ last.value.connected => last.value.success
        /\ last.value.success <=> PairingRunSucceeded
        /\ last.value.success => AllFromRun(fs, last.bundle)
        /\ (last.value.success /\ ~last.value.connected) <=>
              /\ PairingRunSucceeded
              /\ last.mcalls = <<"connect">>
              /\ last.failed_at \in {"create_tls", "bridge.connect"}
              /\ ~mgr[last.m].connected

\* The pairing run succeeded and create_tls raised in the connect() that
\* followed: success true, connected false.
C40_Witness ==
    /\ PairToolDone /\ PairingRunSucceeded
    /\ last.failed_at = "create_tls"
    /\ last.value.success /\ ~last.value.connected
    /\ AllFromRun(fs, last.bundle)

=============================================================================
